---- MODULE Spec2Model ----
(***************************************************************************)
(* Gating decision engine of CytoPy / immunova: density-threshold gates    *)
(* (DensityThreshold), FMO-guided threshold gates (FMOGate) and density    *)
(* clustering gates (DensityClustering), acting on an event table and a    *)
(* ChildPopulationCollection.                                              *)
(*                                                                         *)
(* One action models one public method call on a constructed gate object.  *)
(* Results of external numeric libraries (sklearn KernelDensity, scipy     *)
(* find_peaks, DBSCAN/HDBSCAN/KNN labels, random sampling) are inputs of   *)
(* the call and are drawn with \E from bounded sets.                       *)
(***************************************************************************)
EXTENDS Integers, Sequences, FiniteSets, TLC

VARIABLES
    gate,               \* class of the constructed object
    data,               \* self.data: event table, id -> [x, y]
    labels,             \* self.data['labels']: [present, col]
    child_populations,  \* self.child_populations.populations (ordered)
    warnings,           \* self.warnings
    cfg,                \* constructor arguments kept on the object
    sample,             \* self.sample (ids of the sampled rows, or no sample)
    fmo_x,              \* self.fmo_x control table
    fmo_y,              \* self.fmo_y control table
    lastOp,             \* the method called last
    result,             \* how that call ended: "returned" or the error raised
    thr,                \* thresholds/methods the call passed to the child update
    recon,              \* the reconcile (__1d) invocations of the call
    pred,               \* population-cluster matches and final mapping of the call
    fn,                 \* a helper applied on its own: its arguments and its value
    filegroup,          \* a FileGroup document: its populations and gates, by name
    before              \* populations and warnings at entry of the call

vars == <<gate, data, labels, child_populations, warnings, cfg, sample,
          fmo_x, fmo_y, lastOp, result, thr, recon, pred, fn, filegroup, before>>

---------------------------------------------------------------------------
\* Bounds of the model.
MaxRows == 3            \* rows of the event table of a threshold gate
MaxClusterRows == 2     \* rows of the event table of a clustering gate
MaxCtrlRows == 1        \* rows of a control (FMO) table
GridSize == 3           \* points of the KDE grid (1000 in the source)
SampleMax == 2          \* row count from which down-sampling applies (5000 in the source)

Values == {0, 1}        \* measured values of one dimension
Scale == 2 * (GridSize - 1)   \* thresholds are kept multiplied by Scale

None == "None"

\* ------------------------------------------------------------------------
\* Numbers: a threshold is a number (scaled by Scale), Python None, or NaN.
Num(v) == [kind |-> "num", v |-> v]
NoneT == [kind |-> "None", v |-> 0]
NaNT == [kind |-> "nan", v |-> 0]

\* Python truthiness of a threshold: None and 0 are falsy, NaN is truthy.
Falsy(t) == t.kind = "None" \/ (t.kind = "num" /\ t.v = 0)

\* value > t and value < t as pandas evaluates them (False against NaN).
Gt(v, t) == t.kind = "num" /\ v * Scale > t.v
Lt(v, t) == t.kind = "num" /\ v * Scale < t.v

SetMin(S) == CHOOSE m \in S : \A s \in S : m <= s
SetMax(S) == CHOOSE m \in S : \A s \in S : m >= s

\* ------------------------------------------------------------------------
\* Event tables.
Row == [x : Values, y : Values]
TablesOf(n) == UNION {[1..k -> Row] : k \in 0..n}
Ids(tab) == DOMAIN tab
ColOf(tab, col, i) == IF col = "x" THEN tab[i].x ELSE tab[i].y
ColVals(tab, col) == {ColOf(tab, col, i) : i \in Ids(tab)}
Restrict(tab, S) == [i \in S |-> tab[i]]

\* ------------------------------------------------------------------------
\* ChildPopulationCollection.
NoGeom == [shape |-> "none", method |-> <<>>, cords |-> {}]

PopulationSpec(n, d, t, w, idx) ==
    [name |-> n, definition |-> d, target |-> t, weight |-> w,
     index |-> idx, geom |-> NoGeom]

Names(pops) == {pops[i].name : i \in 1..Len(pops)}
PopIdx(pops, n) == CHOOSE i \in 1..Len(pops) : pops[i].name = n
PopOf(pops, n) == pops[PopIdx(pops, n)]

\* fetch_by_definition: the name of the population with the definition, else None
fetch_by_definition(pops, d) ==
    IF \E i \in 1..Len(pops) : pops[i].definition = d
    THEN pops[CHOOSE i \in 1..Len(pops) : pops[i].definition = d].name
    ELSE None

\* Population.update_index(idx, merge_options)
update_index(pops, n, idx, merge_options) ==
    [pops EXCEPT ![PopIdx(pops, n)].index =
        IF merge_options = "overwrite" THEN idx ELSE @ \cup idx]

\* Population.update_geom(shape, ...)
update_geom(pops, n, g) ==
    [pops EXCEPT ![PopIdx(pops, n)].geom = g]

\* Gate.sampling(data, threshold): None when no fraction is configured, the
\* table itself when it is smaller than threshold, else a random subsample.
sampling(tab, frac, threshold) ==
    IF frac = None THEN {[some |-> FALSE, ids |-> {}]}
    ELSE IF Cardinality(Ids(tab)) < threshold
         THEN {[some |-> TRUE, ids |-> Ids(tab)]}
         ELSE {[some |-> TRUE, ids |-> S] :
                  S \in {T \in SUBSET Ids(tab) :
                           T # {} /\ Cardinality(T) <= threshold}}

\* Gate.empty_parent
empty_parent(tab) == Cardinality(Ids(tab)) = 0

\* an entry of self.warnings: the kind of message and what it names
Warn(kind, pops, cluster, priority) ==
    [kind |-> kind, pops |-> pops, cluster |-> cluster, priority |-> priority]

\* ------------------------------------------------------------------------
\* Threshold estimator (DensityThreshold.__calc_threshold).
\* kde() and scipy find_peaks are library calls: the number of peaks of the
\* density curve and, for several peaks, the grid point of the local minimum
\* are inputs of the estimate.
PeakCounts == 0..2
Grid == 1..GridSize

Quantile == "Quantile"
StdDev == "Standard deviation"
LocalMinima == "Local minima between pair of highest peaks"
FMOGuided == "FMO guided minimum density threshold"

Est(e, t, m) == [err |-> e, threshold |-> t, method |-> m]

\* kde(): x_d = np.linspace(min(d), max(d), GridSize); point i, scaled
xx(tab, col, i) ==
    LET lo == SetMin(ColVals(tab, col))
        hi == SetMax(ColVals(tab, col))
    IN  lo * Scale + 2 * (i - 1) * (hi - lo)

\* round half to even of num / 100
RoundPct(num) ==
    LET fl == num \div 100
        rem == num % 100
    IN  IF 2 * rem > 100 THEN fl + 1
        ELSE IF 2 * rem < 100 THEN fl
        ELSE IF fl % 2 = 0 THEN fl ELSE fl + 1

\* data[x].quantile(q, interpolation='nearest'), q in percent
quantile(tab, col, q) ==
    LET n == Cardinality(Ids(tab))
        k == RoundPct((n - 1) * q)
    IN  CHOOSE v \in ColVals(tab, col) :
            /\ Cardinality({i \in Ids(tab) : ColOf(tab, col, i) < v}) <= k
            /\ k < Cardinality({i \in Ids(tab) : ColOf(tab, col, i) <= v})

\* data[x].mean() + data[x].std() * k: NaN for a single row (sample standard
\* deviation); otherwise a value not below the mean.  The square root is not
\* computed: every scaled value from the mean upward stands for the result.
RECURSIVE SumCol(_, _, _)
SumCol(tab, col, S) ==
    IF S = {} THEN 0
    ELSE LET i == CHOOSE j \in S : TRUE
         IN  ColOf(tab, col, i) + SumCol(tab, col, S \ {i})

std_threshold(tab, col) ==
    LET n == Cardinality(Ids(tab))
        sum == SumCol(tab, col, Ids(tab))
    IN  IF n < 2 THEN {NaNT}
        ELSE {Num(2 * h) : h \in {u \in 0..((SetMax(Values) * Scale) \div 2 + 1) :
                                       2 * u * n >= sum * Scale}}

\* peaks scipy find_peaks can report for the density of a column: none when
\* every value is the same (the curve is flat over a one-point grid)
RawPeaks(tab, col) ==
    IF Cardinality(ColVals(tab, col)) < 2 THEN {0} ELSE PeakCounts

\* DensityThreshold.__find_peaks: with a peak threshold configured check_peak
\* asserts a non-empty peak array and keeps at least the tallest peak.
find_peaks(tab, col, c) ==
    {[err |-> "AssertionError", n |-> 0] :
        raw \in {r \in RawPeaks(tab, col) : c.peak_threshold # 0 /\ r = 0}}
    \cup {[err |-> "ok", n |-> k] :
            k \in {j \in PeakCounts : \E raw \in RawPeaks(tab, col) :
                     IF c.peak_threshold # 0
                     THEN raw > 0 /\ j \in 1..raw
                     ELSE j = raw}}

\* self.x of every gate constructed here
self_x == "x"

\* DensityThreshold.__evaluate_peaks, one peak (lines 66-82): the quantile, the
\* mean and the standard deviation are taken of data[self.x], whatever the
\* feature the density was estimated on
single_peak(tab, c) ==
    IF c.q # 0 THEN {Est("ok", Num(quantile(tab, self_x, c.q) * Scale), Quantile)}
    ELSE IF c.std # 0 THEN {Est("ok", t, StdDev) : t \in std_threshold(tab, self_x)}
    ELSE {Est("ok", Num(quantile(tab, self_x, 95) * Scale), Quantile)}

\* DensityThreshold.__evaluate_peaks
evaluate_peaks(tab, col, c, npeaks) ==
    IF npeaks = 1
    THEN single_peak(tab, c)
    ELSE IF npeaks > 1
    THEN {Est("ok", Num(xx(tab, col, i)), LocalMinima) : i \in Grid}
         \cup {Est("IndexError", NoneT, "") : b \in {c.ignore_double_pos} \ {FALSE}}
    ELSE {Est("ok", NoneT, "")}

\* DensityThreshold.__calc_threshold
calc_threshold(tab, col, c) ==
    UNION {IF p.err # "ok" THEN {Est(p.err, NoneT, "")}
           ELSE evaluate_peaks(tab, col, c, p.n) : p \in find_peaks(tab, col, c)}

\* ------------------------------------------------------------------------
\* The estimator on a density curve given point by point: probs is the array
\* kde() returns, a level per grid point; indices count from 1.
DensityGrid == 6
MaxDensity == 3
Levels == 1..MaxDensity
Densities == [1..DensityGrid -> Levels]

\* the members of a set of integers, ascending
RECURSIVE Ascending(_)
Ascending(S) ==
    IF S = {} THEN <<>>
    ELSE LET m == SetMin(S) IN <<m>> \o Ascending(S \ {m})

\* np.sort(a)
RECURSIVE np_sort(_)
np_sort(a) ==
    IF a = <<>> THEN <<>>
    ELSE LET m == SetMin({a[i] : i \in DOMAIN a})
             k == SetMin({i \in DOMAIN a : a[i] = m})
         IN  <<m>> \o np_sort(SubSeq(a, 1, k - 1) \o SubSeq(a, k + 1, Len(a)))

\* a[::-1]
Reversed(a) == [i \in 1..Len(a) |-> a[Len(a) + 1 - i]]

\* probs[peaks]
Take(probs, peaks) == [i \in 1..Len(peaks) |-> probs[peaks[i]]]

\* np.where(probs == v)[0]
np_where(probs, v) == Ascending({i \in DOMAIN probs : probs[i] = v})

\* scipy.signal.find_peaks(probs)[0]: the middle (rounded down) of every run of
\* equal samples that is higher than the sample on either side of it
signal_find_peaks(probs) ==
    Ascending({m \in DOMAIN probs :
                  \E l \in 2..m, r \in m..(Len(probs) - 1) :
                      /\ m = (l + r) \div 2
                      /\ \A k \in l..r : probs[k] = probs[m]
                      /\ probs[l - 1] < probs[m]
                      /\ probs[r + 1] < probs[m]})

PeakResult(e, peaks) == [err |-> e, peaks |-> peaks]

\* check_peak, t in percent
check_peak(peaks, probs, t) ==
    IF Len(peaks) = 0 THEN PeakResult("AssertionError", <<>>)
    ELSE IF Len(peaks) = 1 THEN PeakResult("ok", peaks)
    ELSE LET sorted_peaks == Reversed(np_sort(Take(probs, peaks)))
             passing == SelectSeq(Tail(sorted_peaks),
                                  LAMBDA p : 100 * p >= t * sorted_peaks[1])
             real_peaks == <<np_where(probs, sorted_peaks[1])[1]>>
                           \o [j \in 1..Len(passing) |-> np_where(probs, passing[j])[1]]
         IN  PeakResult("ok", np_sort(real_peaks))

MinResult(e, i) == [err |-> e, idx |-> i]

\* find_local_minima: the grid index whose xx value is returned
find_local_minima(probs, peaks) ==
    IF Len(peaks) < 2 THEN MinResult("IndexError", 0)
    ELSE LET sorted_peaks == Reversed(np_sort(Take(probs, peaks)))
             tops == np_where(probs, sorted_peaks[1])
         IN  IF sorted_peaks[1] = sorted_peaks[2] /\ Len(tops) # 2
             THEN MinResult("ValueError", 0)
             ELSE LET p1_idx == tops[1]
                      p2_idx == IF sorted_peaks[1] = sorted_peaks[2] THEN tops[2]
                                ELSE np_where(probs, sorted_peaks[2])[1]
                      between_peaks == IF p1_idx < p2_idx THEN p1_idx..(p2_idx - 1)
                                       ELSE p2_idx..(p1_idx - 1)
                      local_min == SetMin({probs[i] : i \in between_peaks})
                  IN  MinResult("ok", np_where(probs, local_min)[1])

\* thresholds of this estimator are scaled by FineScale
FineScale == Scale * (DensityGrid - 1)
Fine(e) ==
    IF e.threshold.kind = "num" THEN Est(e.err, Num(e.threshold.v * (DensityGrid - 1)), e.method)
    ELSE e

\* kde(): x_d = np.linspace(min(d), max(d), DensityGrid); point i, scaled
xx_fine(tab, col, i) ==
    LET lo == SetMin(ColVals(tab, col))
        hi == SetMax(ColVals(tab, col))
    IN  lo * FineScale + Scale * (i - 1) * (hi - lo)

\* lines 85-90: the peaks up to the first one of greatest density
merge_double_pos(probs, peaks) ==
    LET probs_peaks == Take(probs, peaks)
        top == SetMax({probs_peaks[j] : j \in DOMAIN probs_peaks})
        highest_peak == np_where(probs_peaks, top)[1]
    IN  SubSeq(peaks, 1, highest_peak)

\* DensityThreshold.__evaluate_peaks on the peaks of a density curve
evaluate_peaks_at(tab, col, c, peaks, probs) ==
    IF Len(peaks) = 1 THEN {Fine(e) : e \in single_peak(tab, c)}
    ELSE IF Len(peaks) > 1
    THEN LET kept == IF c.ignore_double_pos THEN merge_double_pos(probs, peaks) ELSE peaks
             m == find_local_minima(probs, kept)
         IN  IF m.err # "ok" THEN {Est(m.err, NoneT, "")}
             ELSE {Est("ok", Num(xx_fine(tab, col, m.idx)), LocalMinima)}
    ELSE {Est("ok", NoneT, "")}

\* DensityThreshold.__find_peaks on a density curve
find_peaks_at(probs, c) ==
    IF c.peak_threshold # 0
    THEN check_peak(signal_find_peaks(probs), probs, c.peak_threshold)
    ELSE PeakResult("ok", signal_find_peaks(probs))

\* DensityThreshold.__calc_threshold, probs being what kde(data, x) returned
calc_threshold_at(tab, col, c, probs) ==
    LET p == find_peaks_at(probs, c)
    IN  IF p.err # "ok" THEN {Est(p.err, NoneT, "")}
        ELSE evaluate_peaks_at(tab, col, c, p.peaks, probs)

\* ------------------------------------------------------------------------
\* DensityThreshold: child updates.  An outcome of a call is the collection,
\* the warnings, how the call ended and the thresholds it used.
NoThr == [x |-> NoneT, y |-> NoneT]
Out(pops, w, r, t) == [pops |-> pops, warnings |-> w, result |-> r, thr |-> t]

ThresholdGeom(shape, method) == [shape |-> shape, method |-> method, cords |-> {}]

\* the rows on the positive / negative side of a threshold
Above(tab, col, t) == {i \in Ids(tab) : Gt(ColOf(tab, col, i), t)}
Below(tab, col, t) == {i \in Ids(tab) : Lt(ColOf(tab, col, i), t)}

\* mutant: rows equal to the threshold are taken as positive (>=)
child_update_1d_ge(pops, tab, threshold, method, merge_options) ==
    LET neg == fetch_by_definition(pops, "-")
        pos == fetch_by_definition(pops, "+")
        g == ThresholdGeom("threshold_1d", <<method>>)
    IN  IF threshold.kind = "None" \/ pos = None \/ neg = None
        THEN [pops |-> pops, result |-> "KeyError"]
        ELSE [pops |-> update_index(
                          update_index(update_geom(update_geom(pops, pos, g), neg, g),
                                       pos, Ids(tab) \ Below(tab, "x", threshold), merge_options),
                          neg, Below(tab, "x", threshold), merge_options),
              result |-> "returned"]

\* DensityThreshold.__child_update_1d.  The GateError for a missing
\* definition is constructed but not raised: the lookup populations[None]
\* that follows raises KeyError.
child_update_1d(pops, tab, threshold, method, merge_options) ==
    LET neg == fetch_by_definition(pops, "-")
        pos == fetch_by_definition(pops, "+")
        pos_pop == Above(tab, "x", threshold)
        neg_pop == Below(tab, "x", threshold)
        g == ThresholdGeom("threshold_1d", <<method>>)
    IN  IF threshold.kind = "None" THEN [pops |-> pops, result |-> "TypeError"]
        ELSE IF pos = None THEN [pops |-> pops, result |-> "KeyError"]
        ELSE LET p1 == update_geom(pops, pos, g)
             IN  IF neg = None THEN [pops |-> p1, result |-> "KeyError"]
                 ELSE LET p2 == update_geom(p1, neg, g)
                          p3 == update_index(p2, pos, pos_pop, merge_options)
                          p4 == update_index(p3, neg, neg_pop, merge_options)
                      IN  [pops |-> p4, result |-> "returned"]

\* mutant: the y side of a quadrant is not intersected
QuadrantIdx_x_only(tab, d, tx, ty) ==
    IF d[1] = "+" THEN Above(tab, "x", tx) ELSE Below(tab, "x", tx)

\* the rows of one quadrant: np.intersect1d of the two one-sided index arrays
QuadrantIdx(tab, d, tx, ty) ==
    (IF d[1] = "+" THEN Above(tab, "x", tx) ELSE Below(tab, "x", tx))
    \cap (IF d[2] = "+" THEN Above(tab, "y", ty) ELSE Below(tab, "y", ty))

\* the index updates of __child_update_2d, in the order of the source
RECURSIVE UpdateQuadrants(_, _, _, _, _)
UpdateQuadrants(pops, tab, ds, tx, ty) ==
    IF ds = <<>> THEN [pops |-> pops, result |-> "returned"]
    ELSE LET n == fetch_by_definition(pops, Head(ds).name)
         IN  IF n = None THEN [pops |-> pops, result |-> "KeyError"]
             ELSE UpdateQuadrants(
                      update_index(pops, n, QuadrantIdx(tab, Head(ds).d, tx, ty), "merge"),
                      tab, Tail(ds), tx, ty)

RECURSIVE UpdateGeoms(_, _, _)
UpdateGeoms(pops, ns, g) ==
    IF ns = <<>> THEN pops
    ELSE UpdateGeoms(update_geom(pops, Head(ns), g), Tail(ns), g)

\* DensityThreshold.__child_update_2d
child_update_2d(pops, tab, x_threshold, y_threshold, method) ==
    LET negneg == fetch_by_definition(pops, "--")
        pospos == fetch_by_definition(pops, "++")
        posneg == fetch_by_definition(pops, "+-")
        negpos == fetch_by_definition(pops, "-+")
        u == UpdateQuadrants(pops, tab,
                 <<[name |-> "--", d |-> <<"-", "-">>], [name |-> "++", d |-> <<"+", "+">>],
                   [name |-> "-+", d |-> <<"-", "+">>], [name |-> "+-", d |-> <<"+", "-">>]>>,
                 x_threshold, y_threshold)
    IN  IF x_threshold.kind = "None" \/ y_threshold.kind = "None"
        THEN [pops |-> pops, result |-> "TypeError"]
        ELSE IF u.result # "returned" THEN u
        ELSE [pops |-> UpdateGeoms(u.pops, <<negneg, negpos, posneg, pospos>>,
                                   ThresholdGeom("threshold_2d", method)),
              result |-> "returned"]

\* the table the estimate runs on: the sample when there is one
Working(tab, smp) == IF smp.some THEN Restrict(tab, smp.ids) ELSE tab

\* DensityThreshold.gate_1d
gate_1d_outcomes(pops, w, tab, smp, c, merge_options) ==
    IF empty_parent(tab) THEN {Out(pops, w, "returned", NoThr)}
    ELSE {IF e.err # "ok" THEN Out(pops, w, e.err, NoThr)
          ELSE IF Falsy(e.threshold) THEN Out(pops, w, "GateError", NoThr)
          ELSE LET u == child_update_1d(pops, tab, e.threshold, e.method, merge_options)
               IN  Out(u.pops, w, u.result, [x |-> e.threshold, y |-> NoneT]) :
          e \in calc_threshold(Working(tab, smp), "x", c)}

\* DensityThreshold.gate_2d
gate_2d_outcomes(pops, w, tab, smp, c) ==
    IF empty_parent(tab) THEN {Out(pops, w, "returned", NoThr)}
    ELSE IF c.y = None THEN {Out(pops, w, "GateError", NoThr)}
    ELSE UNION {
          IF ex.err # "ok" THEN {Out(pops, w, ex.err, NoThr)}
          ELSE {IF ey.err # "ok" THEN Out(pops, w, ey.err, NoThr)
                ELSE IF Falsy(ex.threshold) \/ Falsy(ey.threshold)
                     THEN Out(pops, w, "GateError", NoThr)
                ELSE LET u == child_update_2d(pops, tab, ex.threshold, ey.threshold,
                                              <<ex.method, ey.method>>)
                     IN  Out(u.pops, w, u.result, [x |-> ex.threshold, y |-> ey.threshold]) :
                ey \in calc_threshold(Working(tab, smp), "y", c)} :
          ex \in calc_threshold(Working(tab, smp), "x", c)}

\* ------------------------------------------------------------------------
\* FMOGate(DensityThreshold).
\* A name __n used inside a class body is compiled to _Class__n: the private
\* helpers an instance has, by the class whose body defines them.
PrivateAttrs ==
    {<<"DensityThreshold", "__find_peaks">>, <<"DensityThreshold", "__evaluate_peaks">>,
     <<"DensityThreshold", "__calc_threshold">>, <<"DensityThreshold", "__child_update_1d">>,
     <<"DensityThreshold", "__child_update_2d">>, <<"FMOGate", "__1d">>}

\* self.__n evaluated in the body of class cls
HasAttr(cls, n) == <<cls, n>> \in PrivateAttrs

Rec(e, t, m, w, k) ==
    [err |-> e, threshold |-> t, method |-> m, warnings |-> w, estimates |-> k]

ZScoreWarning == Warn("fmo_z_score", <<>>, 0, "")

\* abs(z_score) >= self.z_score_t with z = (fmo - whole) / 0.1; NaN compares False
ZExceeds(whole_t, fmo_t, z_score_t) ==
    /\ fmo_t.kind = "num"
    /\ LET d == fmo_t.v - whole_t.v
       IN  10 * (IF d < 0 THEN -d ELSE d) >= z_score_t * Scale

\* (whole_threshold + fmo_threshold) / 2, scaled
Mean2(whole_t, fmo_t) ==
    IF fmo_t.kind = "num" THEN Num((whole_t.v + fmo_t.v) \div 2) ELSE NaNT

\* FMOGate.__1d from the two estimates on (lines 82-98)
reconcile(ew, ef, c, w) ==
    IF ew.err # "ok" THEN Rec(ew.err, NoneT, "", w, 1)
    ELSE IF ef.err # "ok" THEN Rec(ef.err, NoneT, "", w, 2)
    ELSE IF ew.method \in {Quantile, StdDev}
    THEN Rec("ok", ef.threshold, ef.method, w, 2)
    ELSE IF ew.method = LocalMinima
    THEN IF ef.threshold.kind = "None" THEN Rec("TypeError", NoneT, "", w, 2)
         ELSE IF ZExceeds(ew.threshold, ef.threshold, c.z_score_t)
         THEN Rec("ok", ew.threshold, ew.method, Append(w, ZScoreWarning), 2)
         ELSE Rec("ok", Mean2(ew.threshold, ef.threshold), FMOGuided, w, 2)
    ELSE Rec("TypeError", NoneT, "", w, 2)

\* mutant: the control sample is not checked for events
fmo__1d_no_control_check(whole, fmo, feature, c, w) ==
    IF ~HasAttr("FMOGate", "__calc_threshold")
    THEN {Rec("AttributeError", NoneT, "", w, 0)}
    ELSE {reconcile(ew, ef, c, w) :
             ew \in calc_threshold(whole, feature, c),
             ef \in calc_threshold(fmo, feature, c)}

\* FMOGate.__1d
fmo__1d(whole, fmo, feature, c, w) ==
    IF Cardinality(Ids(fmo)) = 0 THEN {Rec("GateError", NoneT, "", w, 0)}
    ELSE IF ~HasAttr("FMOGate", "__calc_threshold")
    THEN {Rec("AttributeError", NoneT, "", w, 0)}
    ELSE {reconcile(ew, ef, c, w) :
             ew \in calc_threshold(whole, feature, c),
             ef \in calc_threshold(fmo, feature, c)}

\* what one call of __1d did, as recorded in recon
Trace(feature, fmo, w, r) ==
    [feature |-> feature, control_rows |-> Cardinality(Ids(fmo)), err |-> r.err,
     estimates |-> r.estimates, warned |-> r.warnings # w]

FOut(o, tr) == [out |-> o, recon |-> tr]

\* FMOGate.fmo_1d past the empty-parent return (lines 55-67)
fmo_1d_gate(pops, w, tab, smp, fx, c, merge_options) ==
    UNION {
        {LET tr == <<Trace("x", Working(fx, sf), w, r)>>
         IN  IF r.err # "ok" THEN FOut(Out(pops, r.warnings, r.err, NoThr), tr)
             ELSE IF ~HasAttr("FMOGate", "__child_update_1d")
             THEN FOut(Out(pops, r.warnings, "AttributeError", NoThr), tr)
             ELSE LET u == child_update_1d(pops, tab, r.threshold, r.method, merge_options)
                  IN  FOut(Out(u.pops, r.warnings, u.result,
                               [x |-> r.threshold, y |-> NoneT]), tr) :
         r \in fmo__1d(Working(tab, smp), Working(fx, sf), "x", c, w)} :
        sf \in sampling(fx, c.frac, SampleMax)}

\* mutant: the empty-parent return is missing
fmo_1d_no_empty_return(pops, w, tab, smp, fx, c, merge_options) ==
    fmo_1d_gate(pops, w, tab, smp, fx, c, merge_options)

\* FMOGate.fmo_1d
fmo_1d_outcomes(pops, w, tab, smp, fx, c, merge_options) ==
    IF empty_parent(tab) THEN {FOut(Out(pops, w, "returned", NoThr), <<>>)}
    ELSE fmo_1d_gate(pops, w, tab, smp, fx, c, merge_options)

\* FMOGate.fmo_2d
fmo_2d_outcomes(pops, w, tab, smp, fx, fy, c) ==
    IF empty_parent(tab) THEN {FOut(Out(pops, w, "returned", NoThr), <<>>)}
    ELSE IF c.y = None THEN {FOut(Out(pops, w, "GateError", NoThr), <<>>)}
    ELSE UNION {UNION {
        LET tx == <<Trace("x", Working(fx, sfx), w, rx)>>
        IN  IF rx.err # "ok" THEN {FOut(Out(pops, rx.warnings, rx.err, NoThr), tx)}
            ELSE {LET txy == Append(tx, Trace("y", Working(fy, sfy), rx.warnings, ry))
                  IN  IF ry.err # "ok"
                      THEN FOut(Out(pops, ry.warnings, ry.err, NoThr), txy)
                      ELSE IF ~HasAttr("FMOGate", "__child_update_2d")
                      THEN FOut(Out(pops, ry.warnings, "AttributeError", NoThr), txy)
                      ELSE LET u == child_update_2d(pops, tab, rx.threshold, ry.threshold,
                                                    <<rx.method, ry.method>>)
                           IN  FOut(Out(u.pops, ry.warnings, u.result,
                                        [x |-> rx.threshold, y |-> ry.threshold]), txy) :
                  ry \in fmo__1d(Working(tab, smp), Working(fy, sfy), "y", c, rx.warnings)} :
        rx \in fmo__1d(Working(tab, smp), Working(fx, sfx), "x", c, w)} :
        sfx \in sampling(fx, c.frac, SampleMax), sfy \in sampling(fy, c.frac, SampleMax)}

\* ------------------------------------------------------------------------
\* DensityClustering.
\* The labels DBSCAN + KNN (or HDBSCAN) give the events are inputs of the call.
Noise == -1
ClusterLabels == {-1, 0, 1}

ClusterRows(tab, lab, c) == {i \in Ids(tab) : lab[i] = c}
UniqueLabels(tab, lab) == {lab[i] : i \in Ids(tab)}
Point(tab, i) == <<tab[i].x, tab[i].y>>

\* Gate.generate_polygons: one outline per non-noise label, enclosing the
\* events of that cluster; kept as the points it is drawn around
generate_polygons(tab, lab) ==
    [c \in UniqueLabels(tab, lab) \ {Noise} |->
        {Point(tab, i) : i \in ClusterRows(tab, lab, c)}]

Cross(o, a, b) == (a[1] - o[1]) * (b[2] - o[2]) - (a[2] - o[2]) * (b[1] - o[1])

\* shapely Polygon.contains(Point): p lies strictly inside the outline
Contains(poly, p) ==
    /\ \E s \in poly : s # p
    /\ \A s \in poly \ {p} :
          /\ \E a \in poly : Cross(p, s, a) > 0
          /\ \E b \in poly : Cross(p, s, b) < 0

\* the value of rank r (from 0) of a column over the rows S
OrderStat(tab, col, S, r) ==
    CHOOSE v \in {ColOf(tab, col, i) : i \in S} :
        /\ Cardinality({i \in S : ColOf(tab, col, i) < v}) <= r
        /\ r < Cardinality({i \in S : ColOf(tab, col, i) <= v})

\* utilities.centroid: per-dimension np.median, kept doubled
centroid(tab, S) ==
    LET k == Cardinality(S)
    IN  <<OrderStat(tab, "x", S, (k - 1) \div 2) + OrderStat(tab, "x", S, k \div 2),
          OrderStat(tab, "y", S, (k - 1) \div 2) + OrderStat(tab, "y", S, k \div 2)>>

\* np.linalg.norm(target - c), squared and scaled by 4
Dist2(target, c2) ==
    (2 * target[1] - c2[1]) * (2 * target[1] - c2[1])
    + (2 * target[2] - c2[2]) * (2 * target[2] - c2[2])

\* k = int(n * 0.01) capped at 100, with the share and the cap scaled to the
\* table sizes of the model (half of the rows, capped at 1)
NeighbourK(n) == IF n \div 2 > 1 THEN 1 ELSE n \div 2

\* KDTree.query(...)[0]: the k rows nearest to the first row
PointDist2(tab, i, j) ==
    (tab[i].x - tab[j].x) * (tab[i].x - tab[j].x)
    + (tab[i].y - tab[j].y) * (tab[i].y - tab[j].y)

Neighbours(tab, k) ==
    {S \in SUBSET Ids(tab) :
        /\ Cardinality(S) = k
        /\ \A i \in S, j \in Ids(tab) \ S : PointDist2(tab, 1, i) <= PointDist2(tab, 1, j)}

\* mutant: the centroid farthest from the target
FarthestCluster(tab, lab, target) ==
    LET cs == UniqueLabels(tab, lab) \ {Noise}
        d(c) == Dist2(target, centroid(tab, ClusterRows(tab, lab, c)))
        first(c) == SetMin(ClusterRows(tab, lab, c))
    IN  CHOOSE c \in cs :
            \A e \in cs : d(c) > d(e) \/ (d(c) = d(e) /\ first(c) <= first(e))

\* nearest centroid: min(distance_to_centroids), ties to the label seen first
NearestCluster(tab, lab, target) ==
    LET cs == UniqueLabels(tab, lab) \ {Noise}
        d(c) == Dist2(target, centroid(tab, ClusterRows(tab, lab, c)))
        first(c) == SetMin(ClusterRows(tab, lab, c))
    IN  CHOOSE c \in cs :
            \A e \in cs : d(c) < d(e) \/ (d(c) = d(e) /\ first(c) <= first(e))

Match(e, c, w) == [err |-> e, cluster |-> c, warnings |-> w]

\* mutant: the neighbours are looked at whether or not a polygon holds the target
match_pop_to_cluster_noise_first(tab, lab, polys, pop, w) ==
    LET k == NeighbourK(Cardinality(Ids(tab)))
        near == Match("ok", NearestCluster(tab, lab, pop.target), w)
    IN  IF k = 0 THEN {near}
        ELSE {IF {lab[i] : i \in S} = {Noise}
              THEN Match("ok", Noise, Append(w, Warn("noise", <<pop.name>>, Noise, "")))
              ELSE near : S \in Neighbours(tab, k)}

\* DensityClustering._match_pop_to_cluster
match_pop_to_cluster(tab, lab, polys, pop, w) ==
    LET inside == {c \in DOMAIN polys : Contains(polys[c], pop.target)}
        k == NeighbourK(Cardinality(Ids(tab)))
        near == Match("ok", NearestCluster(tab, lab, pop.target), w)
    IN  IF inside # {} THEN {near}
        ELSE IF k = 0
        THEN {Match("ValueError", Noise, w), near}
        ELSE {IF {lab[i] : i \in S} = {Noise}
              THEN Match("ok", Noise, Append(w, Warn("noise", <<pop.name>>, Noise, "")))
              ELSE near : S \in Neighbours(tab, k)}

\* the loop over the populations: the clusters matched so far, in order
RECURSIVE MatchAll(_, _, _, _, _, _)
MatchAll(tab, lab, polys, pops, i, acc) ==
    IF i > Len(pops) \/ acc.err # "ok" THEN {acc}
    ELSE UNION {MatchAll(tab, lab, polys, pops, i + 1,
                    [err |-> m.err, assignments |-> Append(acc.assignments, m.cluster),
                     warnings |-> m.warnings]) :
                m \in match_pop_to_cluster(tab, lab, polys, pops[i], acc.warnings)}

\* populations matched to cluster c, in collection order
PopsOf(pops, assignments, c) ==
    SelectSeq([i \in 1..Len(pops) |-> i], LAMBDA i : assignments[i] = c)

\* max(weights, key=weight): the first population of greatest weight
Priority(pops, members) ==
    LET best == CHOOSE j \in 1..Len(members) :
                   /\ \A l \in 1..Len(members) : pops[members[j]].weight >= pops[members[l]].weight
                   /\ \A l \in 1..(j - 1) : pops[members[l]].weight < pops[members[j]].weight
    IN  members[best]

\* clusters in the order clusters_pops receives them
RECURSIVE ClusterOrder(_, _)
ClusterOrder(assignments, seen) ==
    IF assignments = <<>> THEN <<>>
    ELSE IF Head(assignments) \in seen THEN ClusterOrder(Tail(assignments), seen)
    ELSE <<Head(assignments)>> \o ClusterOrder(Tail(assignments), seen \cup {Head(assignments)})

NamesAt(pops, members) == [j \in 1..Len(members) |-> pops[members[j]].name]

\* the collision loop of _predict_pop_clusters (lines 371-382)
RECURSIVE Resolve(_, _, _, _)
Resolve(pops, assignments, cs, acc) ==
    IF cs = <<>> THEN acc
    ELSE LET c == Head(cs)
             members == PopsOf(pops, assignments, c)
             prio == Priority(pops, members)
             w1 == IF Len(members) > 1
                   THEN Append(acc.warnings,
                               Warn("same_cluster", NamesAt(pops, members), c, pops[prio].name))
                   ELSE acc.warnings
             f1 == IF Len(members) > 1
                   THEN acc.final \cup {<<pops[prio].name, c>>}
                   ELSE acc.final
             f2 == f1 \cup {<<pops[members[1]].name, c>>}
         IN  Resolve(pops, assignments, Tail(cs), [final |-> f2, warnings |-> w1])

Pred(a, f) == [assignments |-> a, final |-> f]
NoPred == Pred(<<>>, {})

\* mutant: the all-noise case is reported as a warning before the error
predict_pop_clusters_warns_first(tab, labcol, polys, pops, w) ==
    {[err |-> "GateError", pred |-> NoPred,
      warnings |-> Append(w, Warn("expected", <<>>, 0, ""))]}

\* DensityClustering._predict_pop_clusters
predict_pop_clusters(tab, labcol, polys, pops, w) ==
    IF ~labcol.present THEN {[err |-> "GateError", pred |-> NoPred, warnings |-> w]}
    ELSE IF UniqueLabels(tab, labcol.col) = {Noise}
    THEN {[err |-> "GateError", pred |-> NoPred, warnings |-> w]}
    ELSE {IF m.err # "ok"
          THEN [err |-> m.err, pred |-> NoPred, warnings |-> m.warnings]
          ELSE LET cs == ClusterOrder(m.assignments, {})
                   w0 == IF Len(cs) # Len(pops)
                         THEN Append(m.warnings, Warn("expected", <<>>, Len(cs), ""))
                         ELSE m.warnings
                   r == Resolve(pops, m.assignments, cs, [final |-> {}, warnings |-> w0])
               IN  [err |-> "ok", pred |-> Pred(m.assignments, r.final), warnings |-> r.warnings] :
          m \in MatchAll(tab, labcol.col, polys, pops, 1,
                         [err |-> "ok", assignments |-> <<>>, warnings |-> w])}

PolyGeom(cords) == [shape |-> "poly", method |-> <<>>, cords |-> cords]

\* DensityClustering._assign_clusters
RECURSIVE assign_clusters(_, _, _, _, _)
assign_clusters(tab, lab, polys, pops, final) ==
    IF final = {} THEN pops
    ELSE LET pc == CHOOSE e \in final : TRUE
             idx == ClusterRows(tab, lab, pc[2])
             p1 == update_index(pops, pc[1], idx, "overwrite")
             cords == IF pc[2] # Noise THEN polys[pc[2]] ELSE {}
         IN  assign_clusters(tab, lab, polys, update_geom(p1, pc[1], PolyGeom(cords)),
                             final \ {pc})

COut(o, labcol, pr) == [out |-> o, labels |-> labcol, pred |-> pr]

\* matching and assignment for labelled events and the polygons drawn
cluster_outcomes_with(pops, w, tab, lab, polys) ==
    LET labcol == [present |-> TRUE, col |-> lab]
    IN  {IF p.err # "ok" THEN COut(Out(pops, p.warnings, p.err, NoThr), labcol, p.pred)
         ELSE COut(Out(assign_clusters(tab, lab, polys, pops, p.pred.final),
                       p.warnings, "returned", NoThr), labcol, p.pred) :
         p \in predict_pop_clusters(tab, labcol, polys, pops, w)}

\* matching and assignment once the events carry labels
cluster_outcomes(pops, w, tab, lab) ==
    cluster_outcomes_with(pops, w, tab, lab, generate_polygons(tab, lab))

\* DensityClustering.dbscan (KNN-extrapolated path)
dbscan_outcomes(pops, w, tab, labcol) ==
    IF empty_parent(tab) THEN {COut(Out(pops, w, "returned", NoThr), labcol, NoPred)}
    ELSE UNION {cluster_outcomes(pops, w, tab, lab) : lab \in [Ids(tab) -> ClusterLabels]}

\* DensityClustering.hdbscan
hdbscan_outcomes(pops, w, tab, labcol) ==
    IF empty_parent(tab) THEN {COut(Out(pops, w, "returned", NoThr), labcol, NoPred)}
    ELSE UNION {cluster_outcomes(pops, w, tab, lab) : lab \in [Ids(tab) -> ClusterLabels]}

\* DensityClustering._post_cluster_checks: what it appends and what it returns
Checked(h, w, n) == [handed |-> h, warnings |-> w, n_labels |-> n]

post_cluster_checks(tab, lab, pops, w) ==
    LET n == Cardinality(UniqueLabels(tab, lab))
    IN  IF n = 1
        THEN Checked("child_populations", Append(w, Warn("no_distinct", <<>>, n, "")), n)
        ELSE IF n # Len(pops)
        THEN Checked("data", Append(w, Warn("expected_chunks", <<>>, n, "")), n)
        ELSE Checked("data", w, n)

\* _dbscan_chunks lines 141-146: rows inside a polygon take its label
RECURSIVE Relabel(_, _, _, _)
Relabel(tab, lab, polys, cs) ==
    IF cs = {} THEN lab
    ELSE LET c == SetMin(cs)
             l1 == [i \in Ids(tab) |->
                      IF Contains(polys[c], Point(tab, i)) THEN c ELSE lab[i]]
         IN  Relabel(tab, l1, polys, cs \ {c})

\* DensityClustering.dbscan with chunks=True, from the merged labels on.  When
\* the check returns the collection, inside_polygon indexes it as a table
\* (TypeError); with no polygon to test, self.data becomes the collection and
\* _predict_pop_clusters reads its columns (AttributeError).
dbscan_chunks_outcomes(pops, w, tab) ==
    UNION {
        LET c == post_cluster_checks(tab, lab, pops, w)
            polys == generate_polygons(tab, lab)
        IN  IF c.handed # "data"
            THEN {[check |-> c,
                   f |-> COut(Out(pops, c.warnings,
                                  IF DOMAIN polys # {} THEN "TypeError" ELSE "AttributeError",
                                  NoThr),
                              [present |-> FALSE, col |-> <<>>], Pred(<<>>, {}))]}
            ELSE {[check |-> c, f |-> o] :
                    o \in cluster_outcomes_with(pops, c.warnings, tab,
                                                Relabel(tab, lab, polys, DOMAIN polys), polys)} :
        lab \in [Ids(tab) -> ClusterLabels]}

\* ------------------------------------------------------------------------
\* Chunked clustering: a chunk is a table of events (id, x, y) with the chunk's
\* number in chunk_idx and the labels DBSCAN gave in that chunk.
Chunk(idx, rows) == [chunk_idx |-> idx, rows |-> rows]
Event(id, p, l) == [id |-> id, x |-> p[1], y |-> p[2], labels |-> l]

\* mutant: the noise rows stay in
with_noise(chunk) == chunk

\* x[x['labels'] != -1]
wo_noise(chunk) == Chunk(chunk.chunk_idx, SelectSeq(chunk.rows, LAMBDA r : r.labels # Noise))

\* data['labels'].unique(), in order of first appearance
RECURSIVE unique(_, _)
unique(rows, seen) ==
    IF rows = <<>> THEN <<>>
    ELSE IF Head(rows).labels \in seen THEN unique(Tail(rows), seen)
    ELSE <<Head(rows).labels>> \o unique(Tail(rows), seen \cup {Head(rows).labels})

\* np.median of a list of integers, doubled
median2(a) ==
    LET sorted == np_sort(a)
        n == Len(a)
    IN  sorted[(n + 1) \div 2] + sorted[n \div 2 + 1]

\* mutant: the number of expected populations whatever the median
meta_k_population_count(clustered_chunks, n_pops) == n_pops

\* _meta_clustering lines 74-81: the number of meta-clusters
meta_k(clustered_chunks, n_pops) ==
    LET median_k2 == median2([c \in 1..Len(clustered_chunks) |->
                                 Len(unique(wo_noise(clustered_chunks[c]).rows, {}))])
    IN  IF median_k2 < 2 * n_pops THEN median_k2 \div 2 ELSE n_pops

CentroidRow(idx, c, ctr) == [chunk_idx |-> idx, cluster |-> c, x |-> ctr[1], y |-> ctr[2]]

\* multi_centroid_calculation: one row per label of the table handed in, the
\* centroid (doubled) being taken over the rows carrying the label
multi_centroid_calculation(chunk) ==
    LET labs == unique(chunk.rows, {})
    IN  [j \in 1..Len(labs) |->
            CentroidRow(chunk.chunk_idx, labs[j],
                        centroid(chunk.rows, {i \in DOMAIN chunk.rows :
                                                 chunk.rows[i].labels = labs[j]}))]

\* pd.concat of a list of tables
RECURSIVE concat(_)
concat(tables) ==
    IF tables = <<>> THEN <<>> ELSE Head(tables) \o concat(Tail(tables))

\* cluster_centroids of _meta_clustering (line 84)
cluster_centroids(clustered_chunks) ==
    concat([c \in 1..Len(clustered_chunks) |->
               multi_centroid_calculation(wo_noise(clustered_chunks[c]))])

\* KMeans(n_clusters=k).fit(...).labels_: a meta-cluster for every centroid
KMeansLabels(n_rows, k) == [1..n_rows -> 0..(k - 1)]
KMeansErrors == {"ValueError", "IndexError"}

MetaResult(e, k, meta) == [err |-> e, k |-> k, meta |-> meta]

\* DensityClustering._meta_clustering: an empty centroid table has no columns
\* x and y (KeyError); KMeans refuses n_clusters = 0
meta_fit(cc, k) ==
    IF cc = <<>> THEN {MetaResult("KeyError", k, <<>>)}
    ELSE IF k = 0 THEN {MetaResult(e, k, <<>>) : e \in KMeansErrors}
    ELSE {MetaResult("ok", k,
              [j \in 1..Len(cc) |->
                  [chunk_idx |-> cc[j].chunk_idx, cluster |-> cc[j].cluster,
                   x |-> cc[j].x, y |-> cc[j].y, meta_cluster |-> lab[j]]]) :
          lab \in KMeansLabels(Len(cc), k)}

meta_clustering(clustered_chunks, n_pops) ==
    meta_fit(cluster_centroids(clustered_chunks), meta_k(clustered_chunks, n_pops))

\* _meta_assignment_df: the meta-cluster of a label by the rows of ref_df
meta_assignment_df(label, ref_df) ==
    IF label = Noise THEN [err |-> "ok", label |-> Noise]
    ELSE LET rows == SelectSeq(ref_df, LAMBDA r : r.cluster = label)
         IN  IF Len(rows) # 1 THEN [err |-> "AssertionError", label |-> label]
             ELSE [err |-> "ok", label |-> rows[1].meta_cluster]

Assigned(e, rows) == [err |-> e, rows |-> rows]

\* the labels of a table rewritten by a reference table
Rewritten(df, ref_df) ==
    LET new == [j \in DOMAIN df.rows |-> meta_assignment_df(df.rows[j].labels, ref_df)]
    IN  IF \E j \in DOMAIN new : new[j].err # "ok" THEN Assigned("AssertionError", <<>>)
        ELSE Assigned("ok", [j \in DOMAIN df.rows |->
                                [df.rows[j] EXCEPT !.labels = new[j].label]])

\* mutant: the rows of every chunk are consulted
meta_assignment_any_chunk(df, meta_clusters) == Rewritten(df, meta_clusters)

\* meta_assignment
meta_assignment(df, meta_clusters) ==
    Rewritten(df, SelectSeq(meta_clusters, LAMBDA r : r.chunk_idx = df.chunk_idx))

\* _dbscan_chunks lines 133-137: data = pd.concat(pool.map(f, clustered_data))
merge_chunks(clustered_chunks, meta_clusters) ==
    LET parts == [c \in DOMAIN clustered_chunks |->
                     meta_assignment(clustered_chunks[c], meta_clusters)]
    IN  IF \E c \in DOMAIN parts : parts[c].err # "ok" THEN Assigned("AssertionError", <<>>)
        ELSE Assigned("ok", concat([c \in DOMAIN parts |-> parts[c].rows]))

\* mutant: the values in the order the workers finished
pool_map_as_completed(out, order) == [j \in 1..Len(order) |-> out[order[j]]]

\* multiprocessing.Pool.map(f, items): every item is handed to a worker
\* process as a copy, the workers finish in any order (order), and the list
\* returned holds the values (out) by the position of their items
pool_map(out, order) == [c \in 1..Len(order) |-> out[c]]

\* ------------------------------------------------------------------------
\* FileGroup: populations and gates are kept by name, a name being a string
\* (a sequence of characters).
Str(cs) == cs
AllStr == Str(<<"a", "l", "l">>)
NoFileGroup == [populations |-> <<>>, gates |-> <<>>, saved |-> FALSE]

\* x in s for two str: s holds x as a substring
InStr(x, s) ==
    \E k \in 0..(Len(s) - Len(x)) : \A j \in 1..Len(x) : s[k + j] = x[j]

\* x in l for a list of names l
InList(x, l) == \E j \in 1..Len(l) : l[j] = x

\* an argument of delete_populations / delete_gates: a str or a list of names
StrArg(v) == [kind |-> "str", v |-> v]
ListArg(l) == [kind |-> "list", v |-> l]

\* name in populations, by the type of the argument
In(x, arg) == IF arg.kind = "str" THEN InStr(x, arg.v) ELSE InList(x, arg.v)

\* populations == all: the argument compared with the builtin function all
EqualsBuiltinAll(arg) == FALSE

\* the list comprehension of lines 281 and 298
KeepNotIn(names, arg) == SelectSeq(names, LAMBDA n : ~In(n, arg))

\* FileGroup.delete_populations
delete_populations_of(fg, arg) ==
    [fg EXCEPT !.populations = IF EqualsBuiltinAll(arg) THEN <<>> ELSE KeepNotIn(@, arg),
               !.saved = TRUE]

\* FileGroup.delete_gates
delete_gates_of(fg, arg) ==
    [fg EXCEPT !.gates = IF EqualsBuiltinAll(arg) THEN <<>> ELSE KeepNotIn(@, arg),
               !.saved = TRUE]

\* ------------------------------------------------------------------------
\* Constructed objects.
OneD == {"+", "-"}
Quad == {"--", "-+", "+-", "++"}
DefOrder == <<"+", "-", "--", "-+", "+-", "++">>

NameOf(d) ==
    CASE d = "+" -> "pos" [] d = "-" -> "neg" [] d = "--" -> "negneg"
      [] d = "-+" -> "negpos" [] d = "+-" -> "posneg" [] d = "++" -> "pospos"

\* the collections handed to threshold gates: one population per definition
DefSets == (SUBSET OneD) \cup (SUBSET Quad) \cup {OneD \cup Quad}


RECURSIVE Collection(_, _, _)
Collection(ds, S, idx) ==
    IF ds = <<>> THEN <<>>
    ELSE IF Head(ds) \in S
         THEN <<PopulationSpec(NameOf(Head(ds)), Head(ds), <<0, 0>>, 1, idx)>>
              \o Collection(Tail(ds), S, idx)
         ELSE Collection(Tail(ds), S, idx)

\* index already held by the populations when the gate is built
PriorIndexes(tab, S) ==
    {{}} \cup {{i} : i \in {j \in Ids(tab) \cap {1} : S \in {OneD, Quad}}}

Cfg(q, std, pt, idp, frac, y, z) ==
    [q |-> q, std |-> std, peak_threshold |-> pt, ignore_double_pos |-> idp,
     frac |-> frac, y |-> y, z_score_t |-> z]

Fracs == {None, "half"}

\* DensityThreshold.__init__ arguments (q and std in percent / units, 0 = unset)
ThresholdCfgs ==
    {Cfg(95, 0, 0, FALSE, f, "y", 0) : f \in Fracs}
    \cup {Cfg(0, 1, 0, FALSE, f, "y", 0) : f \in Fracs}
    \cup {Cfg(0, 0, 5, TRUE, f, "y", 0) : f \in Fracs}
    \cup {Cfg(95, 0, 0, FALSE, None, None, 0)}

\* FMOGate.__init__ arguments
FMOCfgs ==
    {Cfg(95, 0, 0, FALSE, f, "y", z) : f \in Fracs, z \in {2, 5}}
    \cup {Cfg(95, 0, 0, FALSE, None, None, 2)}

\* the collections handed to guided gates
FMODefSets == {{}, {"+"}, OneD, Quad}

NoOp == <<"none", "">>
EmptyTable == <<>>
NoSample == [some |-> FALSE, ids |-> {}]
NoLabels == [present |-> FALSE, col |-> <<>>]

\* control tables: only the gated column is read
CtrlTables(col) ==
    {t \in TablesOf(MaxCtrlRows) :
        \A i \in Ids(t) : IF col = "x" THEN t[i].y = 0 ELSE t[i].x = 0}

NoFn == [name |-> "none", done |-> FALSE]

Fresh ==
    /\ warnings = <<>>
    /\ labels = NoLabels
    /\ lastOp = NoOp
    /\ result = "none"
    /\ thr = NoThr
    /\ recon = <<>>
    /\ pred = NoPred
    /\ filegroup = NoFileGroup
    /\ fn = NoFn
    /\ before = [pops |-> child_populations, warnings |-> warnings]

InitDensityThreshold ==
    /\ gate = "DensityThreshold"
    /\ data \in TablesOf(MaxRows)
    /\ \E S \in DefSets : \E idx \in PriorIndexes(data, S) :
          child_populations = Collection(DefOrder, S, idx)
    /\ cfg \in ThresholdCfgs
    /\ sample \in sampling(data, cfg.frac, SampleMax)
    /\ fmo_x = EmptyTable
    /\ fmo_y = EmptyTable
    /\ Fresh

InitFMOGate ==
    /\ gate = "FMOGate"
    /\ data \in TablesOf(MaxRows)
    /\ \E S \in FMODefSets : child_populations = Collection(DefOrder, S, {})
    /\ cfg \in FMOCfgs
    /\ sample \in sampling(data, cfg.frac, SampleMax)
    /\ fmo_x \in CtrlTables("x")
    /\ fmo_y \in CtrlTables("y")
    /\ Fresh

\* the collections handed to clustering gates: up to three populations,
\* each with a target and a weight
PopNames == <<"A", "B", "C">>
Targets == {<<0, 0>>, <<1, 1>>}
Weights == {1, 2}

ClusterCollections ==
    UNION {{[i \in 1..k |-> PopulationSpec(PopNames[i], "", t[i], wt[i], {})] :
              t \in [1..k -> Targets], wt \in [1..k -> Weights]} : k \in 0..Len(PopNames)}

InitDensityClustering ==
    /\ gate = "DensityClustering"
    /\ data \in TablesOf(MaxClusterRows)
    /\ child_populations \in ClusterCollections
    /\ cfg = Cfg(0, 0, 0, FALSE, None, "y", 0)
    /\ sample = NoSample
    /\ fmo_x = EmptyTable
    /\ fmo_y = EmptyTable
    /\ Fresh

\* ------------------------------------------------------------------------
\* Calls.
Call(op, o, tr, labcol, pr) ==
    /\ lastOp' = op
    /\ labels' = labcol
    /\ pred' = pr
    /\ child_populations' = o.pops
    /\ warnings' = o.warnings
    /\ result' = o.result
    /\ thr' = o.thr
    /\ recon' = tr
    /\ before' = [pops |-> child_populations, warnings |-> warnings]
    /\ UNCHANGED <<gate, data, cfg, sample, fmo_x, fmo_y, fn, filegroup>>

MergeOptions == {"overwrite", "merge"}

gate_1d ==
    /\ lastOp = NoOp
    /\ gate = "DensityThreshold"
    /\ \E m \in MergeOptions :
         \E o \in gate_1d_outcomes(child_populations, warnings, data, sample, cfg, m) :
            Call(<<"gate_1d", m>>, o, <<>>, labels, pred)

gate_2d ==
    /\ lastOp = NoOp
    /\ gate = "DensityThreshold"
    /\ \E o \in gate_2d_outcomes(child_populations, warnings, data, sample, cfg) :
            Call(<<"gate_2d", "merge">>, o, <<>>, labels, pred)

fmo_1d ==
    /\ lastOp = NoOp
    /\ gate = "FMOGate"
    /\ \E m \in MergeOptions :
         \E f \in fmo_1d_outcomes(child_populations, warnings, data, sample, fmo_x, cfg, m) :
            Call(<<"fmo_1d", m>>, f.out, f.recon, labels, pred)

fmo_2d ==
    /\ lastOp = NoOp
    /\ gate = "FMOGate"
    /\ \E f \in fmo_2d_outcomes(child_populations, warnings, data, sample, fmo_x, fmo_y, cfg) :
            Call(<<"fmo_2d", "merge">>, f.out, f.recon, labels, pred)

dbscan ==
    /\ lastOp = NoOp
    /\ gate = "DensityClustering"
    /\ \E f \in dbscan_outcomes(child_populations, warnings, data, labels) :
            Call(<<"dbscan", "">>, f.out, <<>>, f.labels, f.pred)

hdbscan ==
    /\ lastOp = NoOp
    /\ gate = "DensityClustering"
    /\ \E f \in hdbscan_outcomes(child_populations, warnings, data, labels) :
            Call(<<"hdbscan", "">>, f.out, <<>>, f.labels, f.pred)

\* every gate class
Init == InitDensityThreshold \/ InitFMOGate \/ InitDensityClustering
Next == gate_1d \/ gate_2d \/ fmo_1d \/ fmo_2d \/ dbscan \/ hdbscan
Spec == Init /\ [][Next]_vars

\* DensityThreshold objects
NextThreshold == gate_1d \/ gate_2d
SpecThreshold == InitDensityThreshold /\ [][NextThreshold]_vars

\* FMOGate objects
NextFMO == fmo_1d \/ fmo_2d
SpecFMO == InitFMOGate /\ [][NextFMO]_vars

\* DensityClustering objects
NextCluster == dbscan \/ hdbscan
SpecCluster == InitDensityClustering /\ [][NextCluster]_vars

\* ------------------------------------------------------------------------
\* DensityClustering.dbscan(chunks=True)
dbscan_chunks ==
    /\ lastOp = NoOp
    /\ gate = "DensityClustering"
    /\ lastOp' = <<"dbscan", "chunks">>
    /\ before' = [pops |-> child_populations, warnings |-> warnings]
    /\ IF empty_parent(data)
       THEN /\ result' = "returned"
            /\ UNCHANGED <<labels, pred, child_populations, warnings, fn>>
       ELSE \E o \in dbscan_chunks_outcomes(child_populations, warnings, data) :
               /\ fn' = [name |-> "_post_cluster_checks", done |-> TRUE,
                         handed |-> o.check.handed, n_labels |-> o.check.n_labels,
                         warned |-> o.check.warnings # warnings]
               /\ labels' = o.f.labels
               /\ pred' = o.f.pred
               /\ child_populations' = o.f.out.pops
               /\ warnings' = o.f.out.warnings
               /\ result' = o.f.out.result
    /\ UNCHANGED <<gate, data, cfg, sample, fmo_x, fmo_y, thr, recon, filegroup>>

NextChunks == dbscan_chunks
SpecChunks == InitDensityClustering /\ [][NextChunks]_vars

\* ------------------------------------------------------------------------
\* A FileGroup with some populations and gates, and the deletions called on it.
MaxNames == 2
ObjectNames == {Str(<<"a">>), Str(<<"a", "l", "l">>), Str(<<"T">>), Str(<<"T", "a">>)}

\* lists of different names, up to MaxNames long
NameLists ==
    {l \in UNION {[1..n -> ObjectNames] : n \in 0..MaxNames} :
        \A i \in 1..Len(l), j \in 1..Len(l) : i # j => l[i] # l[j]}

DeleteArgs == {StrArg(AllStr)} \cup {ListArg(l) : l \in NameLists}

InitFileGroup ==
    /\ gate = "FileGroup"
    /\ data = EmptyTable
    /\ child_populations = <<>>
    /\ cfg = Cfg(0, 0, 0, FALSE, None, None, 0)
    /\ sample = NoSample
    /\ fmo_x = EmptyTable
    /\ fmo_y = EmptyTable
    /\ warnings = <<>>
    /\ labels = NoLabels
    /\ lastOp = NoOp
    /\ result = "none"
    /\ thr = NoThr
    /\ recon = <<>>
    /\ pred = NoPred
    /\ \E ps \in NameLists, gs \in NameLists :
          filegroup = [populations |-> ps, gates |-> gs, saved |-> FALSE]
    /\ fn = [name |-> "none", done |-> FALSE, arg |-> StrArg(AllStr), was |-> NoFileGroup]
    /\ before = [pops |-> child_populations, warnings |-> warnings]

delete_populations ==
    /\ gate = "FileGroup"
    /\ \E arg \in DeleteArgs :
          /\ filegroup' = delete_populations_of(filegroup, arg)
          /\ fn' = [name |-> "delete_populations", done |-> TRUE, arg |-> arg, was |-> filegroup]
    /\ lastOp' = <<"delete_populations", "">>
    /\ result' = "returned"
    /\ UNCHANGED <<gate, data, labels, child_populations, warnings, cfg, sample,
                   fmo_x, fmo_y, thr, recon, pred, before>>

delete_gates ==
    /\ gate = "FileGroup"
    /\ \E arg \in DeleteArgs :
          /\ filegroup' = delete_gates_of(filegroup, arg)
          /\ fn' = [name |-> "delete_gates", done |-> TRUE, arg |-> arg, was |-> filegroup]
    /\ lastOp' = <<"delete_gates", "">>
    /\ result' = "returned"
    /\ UNCHANGED <<gate, data, labels, child_populations, warnings, cfg, sample,
                   fmo_x, fmo_y, thr, recon, pred, before>>

NextFileGroup == delete_populations \/ delete_gates
SpecFileGroup == InitFileGroup /\ [][NextFileGroup]_vars

\* ------------------------------------------------------------------------
\* Labelling and matching called one after the other on a clustering gate.
NoPolys == [c \in {} |-> {}]

\* DensityClustering._dbscan_knn: the fit refuses a table without rows,
\* otherwise every event gets a label
dbscan_knn ==
    /\ lastOp = NoOp
    /\ gate = "DensityClustering"
    /\ IF empty_parent(data)
       THEN Call(<<"_dbscan_knn", "">>, Out(child_populations, warnings, "ValueError", NoThr),
                 <<>>, labels, pred)
       ELSE \E lab \in [Ids(data) -> ClusterLabels] :
               Call(<<"_dbscan_knn", "">>, Out(child_populations, warnings, "returned", NoThr),
                    <<>>, [present |-> TRUE, col |-> lab], pred)

\* DensityClustering._predict_pop_clusters called with the polygons of the
\* labels there are
predict ==
    /\ lastOp[1] \in {"none", "_dbscan_knn"}
    /\ gate = "DensityClustering"
    /\ LET polys == IF labels.present THEN generate_polygons(data, labels.col) ELSE NoPolys
       IN  \E p \in predict_pop_clusters(data, labels, polys, child_populations, warnings) :
              Call(<<"_predict_pop_clusters", "">>,
                   Out(child_populations, p.warnings,
                       IF p.err = "ok" THEN "returned" ELSE p.err, NoThr),
                   <<>>, labels, p.pred)

NextMatch == dbscan_knn \/ predict
SpecMatch == InitDensityClustering /\ [][NextMatch]_vars

\* ------------------------------------------------------------------------
\* FMOGate.__init__ as a step: the arguments are there, the object is not.
\* fmo_y holds the y control when one is passed; fn.fmo_y_given tells whether
\* the argument was passed or left at its default None.
InitFMOArgs ==
    /\ gate = "unbuilt"
    /\ data \in TablesOf(MaxRows)
    /\ \E S \in FMODefSets : child_populations = Collection(DefOrder, S, {})
    /\ cfg \in FMOCfgs
    /\ sample = NoSample
    /\ fmo_x \in CtrlTables("x")
    /\ \E given \in BOOLEAN :
          /\ fn = [name |-> "FMOGate.__init__", done |-> FALSE, fmo_y_given |-> given]
          /\ IF given THEN fmo_y \in CtrlTables("y") ELSE fmo_y = EmptyTable
    /\ warnings = <<>>
    /\ labels = NoLabels
    /\ lastOp = NoOp
    /\ result = "none"
    /\ thr = NoThr
    /\ recon = <<>>
    /\ pred = NoPred
    /\ filegroup = NoFileGroup
    /\ before = [pops |-> child_populations, warnings |-> warnings]

\* FMOGate.__init__: fmo_x.copy(), fmo_y.copy(), then the three samplings
FMOGate_init ==
    /\ gate = "unbuilt" /\ ~fn.done
    /\ fn' = [fn EXCEPT !.done = TRUE]
    /\ IF ~fn.fmo_y_given
       THEN /\ result' = "AttributeError"
            /\ UNCHANGED <<gate, sample>>
       ELSE /\ result' = "constructed"
            /\ gate' = "FMOGate"
            /\ sample' \in sampling(data, cfg.frac, SampleMax)
    /\ UNCHANGED <<filegroup, data, labels, child_populations, warnings, cfg, fmo_x, fmo_y,
                   lastOp, thr, recon, pred, before>>

NextFMOConstruct == FMOGate_init \/ fmo_1d \/ fmo_2d
SpecFMOConstruct == InitFMOArgs /\ [][NextFMOConstruct]_vars

\* ------------------------------------------------------------------------
\* FMOGate.__1d from line 82 on, applied to a pair of estimates.
ZScores == {2, 5, 10}
Methods == {Quantile, StdDev, LocalMinima}
EstimateValues == {Num(2 * k) : k \in 0..(GridSize - 1)}

\* what __calc_threshold can hand back
Estimates ==
    {Est("ok", t, m) : t \in EstimateValues, m \in Methods}
    \cup {Est("ok", NaNT, StdDev), Est("ok", NoneT, "")}
    \cup {Est(e, NoneT, "") : e \in {"AssertionError", "IndexError"}}

PriorWarnings == {<<>>, <<Warn("noise", <<"A">>, Noise, "")>>}

InitReconcile ==
    /\ gate = "FMOGate"
    /\ data = EmptyTable
    /\ child_populations = <<>>
    /\ \E z \in ZScores : cfg = Cfg(95, 0, 0, FALSE, None, None, z)
    /\ sample = NoSample
    /\ fmo_x = EmptyTable
    /\ fmo_y = EmptyTable
    /\ warnings \in PriorWarnings
    /\ labels = NoLabels
    /\ lastOp = NoOp
    /\ result = "none"
    /\ thr = NoThr
    /\ recon = <<>>
    /\ pred = NoPred
    /\ filegroup = NoFileGroup
    /\ \E ew \in Estimates, ef \in Estimates :
          fn = [name |-> "reconcile", done |-> FALSE, whole |-> ew, fmo |-> ef, method |-> ""]
    /\ before = [pops |-> child_populations, warnings |-> warnings]

Reconcile ==
    /\ fn.name = "reconcile" /\ ~fn.done
    /\ LET r == reconcile(fn.whole, fn.fmo, cfg, warnings)
       IN  /\ fn' = [fn EXCEPT !.done = TRUE, !.method = r.method]
           /\ result' = r.err
           /\ thr' = [x |-> r.threshold, y |-> NoneT]
           /\ warnings' = r.warnings
    /\ before' = [pops |-> child_populations, warnings |-> warnings]
    /\ UNCHANGED <<filegroup, gate, data, labels, child_populations, cfg, sample, fmo_x, fmo_y,
                   lastOp, recon, pred>>

NextReconcile == Reconcile
SpecReconcile == InitReconcile /\ [][NextReconcile]_vars

\* ------------------------------------------------------------------------
\* FMOGate.__1d called on a whole-panel and a control table, the tables given
\* by the number of control rows and by what DensityThreshold.__calc_threshold
\* makes of each of them.
ControlRows == 0..MaxCtrlRows

\* FMOGate.__1d (lines 77-98)
fmo__1d_of(ew, ef, rows, c, w) ==
    IF rows = 0 THEN Rec("GateError", NoneT, "", w, 0)
    ELSE IF ~HasAttr("FMOGate", "__calc_threshold")
    THEN Rec("AttributeError", NoneT, "", w, 0)
    ELSE reconcile(ew, ef, c, w)

InitGuided1d ==
    /\ gate = "FMOGate"
    /\ data = EmptyTable
    /\ child_populations = <<>>
    /\ \E z \in ZScores : cfg = Cfg(95, 0, 0, FALSE, None, None, z)
    /\ sample = NoSample
    /\ fmo_x = EmptyTable
    /\ fmo_y = EmptyTable
    /\ warnings \in PriorWarnings
    /\ labels = NoLabels
    /\ lastOp = NoOp
    /\ result = "none"
    /\ thr = NoThr
    /\ recon = <<>>
    /\ pred = NoPred
    /\ filegroup = NoFileGroup
    /\ \E ew \in Estimates, ef \in Estimates, n \in ControlRows :
          fn = [name |-> "__1d", done |-> FALSE, whole |-> ew, fmo |-> ef,
                control_rows |-> n, method |-> ""]
    /\ before = [pops |-> child_populations, warnings |-> warnings]

Guided1d ==
    /\ fn.name = "__1d" /\ ~fn.done
    /\ LET r == fmo__1d_of(fn.whole, fn.fmo, fn.control_rows, cfg, warnings)
       IN  /\ fn' = [fn EXCEPT !.done = TRUE, !.method = r.method]
           /\ result' = r.err
           /\ thr' = [x |-> r.threshold, y |-> NoneT]
           /\ warnings' = r.warnings
    /\ before' = [pops |-> child_populations, warnings |-> warnings]
    /\ UNCHANGED <<filegroup, gate, data, labels, child_populations, cfg, sample,
                   fmo_x, fmo_y, lastOp, recon, pred>>

NextGuided1d == Guided1d
SpecGuided1d == InitGuided1d /\ [][NextGuided1d]_vars

\* ------------------------------------------------------------------------
\* check_peak and find_local_minima applied to the peaks of a density curve.
PeakThresholds == {5, 50, 90}
NoCurve == [name |-> "none", probs |-> <<>>, t |-> 0, input |-> <<>>,
            err |-> "none", peaks |-> <<>>, idx |-> 0]

Idle ==
    /\ data = EmptyTable
    /\ child_populations = <<>>
    /\ sample = NoSample
    /\ fmo_x = EmptyTable
    /\ fmo_y = EmptyTable
    /\ warnings = <<>>
    /\ labels = NoLabels
    /\ lastOp = NoOp
    /\ result = "none"
    /\ thr = NoThr
    /\ recon = <<>>
    /\ pred = NoPred
    /\ filegroup = NoFileGroup
    /\ before = [pops |-> child_populations, warnings |-> warnings]

InitDensity ==
    /\ gate = "DensityThreshold"
    /\ \E t \in PeakThresholds :
          /\ cfg = Cfg(95, 0, t, FALSE, None, None, 0)
          /\ \E probs \in Densities :
                fn = [NoCurve EXCEPT !.probs = probs, !.t = t,
                                     !.input = signal_find_peaks(probs)]
    /\ Idle

\* peaks = check_peak(peaks, probs, self.peak_threshold)
CheckPeak ==
    /\ fn.name = "none"
    /\ LET r == check_peak(fn.input, fn.probs, fn.t)
       IN  /\ fn' = [fn EXCEPT !.name = "check_peak", !.err = r.err, !.peaks = r.peaks]
           /\ result' = r.err
    /\ UNCHANGED <<gate, data, labels, child_populations, warnings, cfg, sample, fmo_x,
                   fmo_y, lastOp, thr, recon, pred, filegroup, before>>

\* threshold = find_local_minima(probs, xx, peaks), more than one peak found
FindLocalMinima ==
    /\ fn.name = "none"
    /\ Len(fn.input) > 1
    /\ LET r == find_local_minima(fn.probs, fn.input)
       IN  /\ fn' = [fn EXCEPT !.name = "find_local_minima", !.err = r.err, !.idx = r.idx]
           /\ result' = r.err
    /\ UNCHANGED <<gate, data, labels, child_populations, warnings, cfg, sample, fmo_x,
                   fmo_y, lastOp, thr, recon, pred, filegroup, before>>

NextDensity == CheckPeak \/ FindLocalMinima
SpecDensity == InitDensity /\ [][NextDensity]_vars

\* ------------------------------------------------------------------------
\* DensityThreshold.__calc_threshold on a table, a feature and the density
\* curve kde() made of it.
EstimatorCfgs ==
    {Cfg(95, 0, 0, FALSE, None, "y", 0), Cfg(0, 1, 0, FALSE, None, "y", 0),
     Cfg(0, 0, 0, FALSE, None, "y", 0), Cfg(95, 0, 0, TRUE, None, "y", 0),
     Cfg(95, 0, 50, FALSE, None, "y", 0)}
Features == {"x", "y"}
NoEst == Est("none", NoneT, "")

InitEstimate ==
    /\ gate = "DensityThreshold"
    /\ data \in TablesOf(MaxClusterRows) \ {EmptyTable}
    /\ cfg \in EstimatorCfgs
    /\ \E probs \in Densities, f \in Features :
          fn = [name |-> "none", probs |-> probs, feature |-> f, est |-> NoEst]
    /\ child_populations = <<>>
    /\ sample = NoSample
    /\ fmo_x = EmptyTable
    /\ fmo_y = EmptyTable
    /\ warnings = <<>>
    /\ labels = NoLabels
    /\ lastOp = NoOp
    /\ result = "none"
    /\ thr = NoThr
    /\ recon = <<>>
    /\ pred = NoPred
    /\ filegroup = NoFileGroup
    /\ before = [pops |-> child_populations, warnings |-> warnings]

CalcThreshold ==
    /\ fn.name = "none"
    /\ \E e \in calc_threshold_at(data, fn.feature, cfg, fn.probs) :
          /\ fn' = [fn EXCEPT !.name = "__calc_threshold", !.est = e]
          /\ result' = e.err
    /\ UNCHANGED <<gate, data, labels, child_populations, warnings, cfg, sample, fmo_x,
                   fmo_y, lastOp, thr, recon, pred, filegroup, before>>

NextEstimate == CalcThreshold
SpecEstimate == InitEstimate /\ [][NextEstimate]_vars

\* ------------------------------------------------------------------------
\* Meta-clustering of the chunks of a clustering gate.
MaxChunks == 3
MaxChunkRows == 2
ChunkPoints == {<<0, 1>>, <<1, 0>>}

\* the events of one chunk, before identifiers are given
RawChunks(points) ==
    UNION {[1..n -> [p : points, l : ClusterLabels]] : n \in 1..MaxChunkRows}

RECURSIVE RowsBefore(_, _)
RowsBefore(raws, c) == IF c = 1 THEN 0 ELSE RowsBefore(raws, c - 1) + Len(raws[c - 1])

\* Gate.generate_chunks and the DBSCAN labels of each chunk: consecutive
\* events, numbered chunks
clustered_data(raws) ==
    [c \in 1..Len(raws) |->
        Chunk(c - 1, [j \in 1..Len(raws[c]) |->
                        Event(RowsBefore(raws, c) + j, raws[c][j].p, raws[c][j].l)])]

\* many chunks of events at one point, or fewer chunks of events at any point
ChunkLists ==
    {clustered_data(raws) :
        raws \in UNION {[1..n -> RawChunks({<<0, 1>>})] : n \in 1..MaxChunks}}
    \cup {clustered_data(raws) :
        raws \in UNION {[1..n -> RawChunks(ChunkPoints)] : n \in 1..(MaxChunks - 1)}}

MetaCollections ==
    {[i \in 1..k |-> PopulationSpec(PopNames[i], "", <<0, 0>>, 1, {})] : k \in 0..Len(PopNames)}

NoMeta == [name |-> "none", chunks |-> <<>>, k |-> 0, meta |-> <<>>, merged |-> <<>>]

InitMeta ==
    /\ gate = "DensityClustering"
    /\ data = EmptyTable
    /\ child_populations \in MetaCollections
    /\ cfg = Cfg(0, 0, 0, FALSE, None, "y", 0)
    /\ sample = NoSample
    /\ fmo_x = EmptyTable
    /\ fmo_y = EmptyTable
    /\ warnings = <<>>
    /\ labels = NoLabels
    /\ lastOp = NoOp
    /\ result = "none"
    /\ thr = NoThr
    /\ recon = <<>>
    /\ pred = NoPred
    /\ filegroup = NoFileGroup
    /\ \E chunks \in ChunkLists : fn = [NoMeta EXCEPT !.chunks = chunks]
    /\ before = [pops |-> child_populations, warnings |-> warnings]

\* meta_clusters = self._meta_clustering(clustered_data)
MetaClustering ==
    /\ fn.name = "none" /\ fn.chunks # <<>>
    /\ \E r \in meta_clustering(fn.chunks, Len(child_populations)) :
          /\ fn' = [fn EXCEPT !.name = "_meta_clustering", !.k = r.k, !.meta = r.meta]
          /\ result' = r.err
    /\ UNCHANGED <<gate, data, labels, child_populations, warnings, cfg, sample, fmo_x,
                   fmo_y, lastOp, thr, recon, pred, filegroup, before>>

\* data = pd.concat(pool.map(f, clustered_data)), the mapping being made
MetaAssignment ==
    /\ fn.name = "_meta_clustering" /\ result = "ok"
    /\ LET r == merge_chunks(fn.chunks, fn.meta)
       IN  /\ fn' = [fn EXCEPT !.name = "meta_assignment", !.merged = r.rows]
           /\ result' = r.err
    /\ UNCHANGED <<gate, data, labels, child_populations, warnings, cfg, sample, fmo_x,
                   fmo_y, lastOp, thr, recon, pred, filegroup, before>>

NextMeta == MetaClustering \/ MetaAssignment
SpecMeta == InitMeta /\ [][NextMeta]_vars

\* ------------------------------------------------------------------------
\* _match_pop_to_cluster for one population on labelled events, one cluster
\* at least being there (as _predict_pop_clusters has made sure).
MaxMatchRows == 4
MatchPoints == {<<0, 0>>, <<3, 0>>, <<0, 3>>, <<3, 3>>}
MatchTargets == {<<1, 1>>, <<3, 3>>}
MatchTables ==
    UNION {[1..n -> {[x |-> p[1], y |-> p[2]] : p \in MatchPoints}] : n \in 1..MaxMatchRows}

InitMatchOne ==
    /\ gate = "DensityClustering"
    /\ data \in MatchTables
    /\ \E lab \in [Ids(data) -> ClusterLabels] :
          /\ UniqueLabels(data, lab) # {Noise}
          /\ labels = [present |-> TRUE, col |-> lab]
    /\ \E t \in MatchTargets :
          child_populations = <<PopulationSpec(PopNames[1], "", t, 1, {})>>
    /\ cfg = Cfg(0, 0, 0, FALSE, None, "y", 0)
    /\ sample = NoSample
    /\ fmo_x = EmptyTable
    /\ fmo_y = EmptyTable
    /\ warnings = <<>>
    /\ lastOp = NoOp
    /\ result = "none"
    /\ thr = NoThr
    /\ recon = <<>>
    /\ pred = NoPred
    /\ filegroup = NoFileGroup
    /\ fn = [name |-> "none", cluster |-> Noise, chunks |-> <<>>]
    /\ before = [pops |-> child_populations, warnings |-> warnings]

\* self._match_pop_to_cluster(target_population, cluster_polygons)
MatchPop ==
    /\ fn.name = "none" /\ fn.chunks = <<>>
    /\ \E m \in match_pop_to_cluster(data, labels.col, generate_polygons(data, labels.col),
                                     child_populations[1], warnings) :
          /\ fn' = [fn EXCEPT !.name = "_match_pop_to_cluster", !.cluster = m.cluster]
          /\ result' = m.err
          /\ warnings' = m.warnings
    /\ UNCHANGED <<gate, data, labels, child_populations, cfg, sample, fmo_x,
                   fmo_y, lastOp, thr, recon, pred, filegroup, before>>

NextMatchOne == MatchPop
SpecMatchOne == InitMatchOne /\ [][NextMatchOne]_vars

\* every place a centroid is computed: meta-clustering and matching
InitCentroids == InitMeta \/ InitMatchOne
NextCentroids == MetaClustering \/ MetaAssignment \/ MatchPop
SpecCentroids == InitCentroids /\ [][NextCentroids]_vars

----------------------------------------------------------------------------
\* The core_only step of _dbscan_chunks and _dbscan_knn

MaxCoreRows == 4

\* non_core_mask = np.ones(len(db_labels), np.bool);
\* non_core_mask[model.core_sample_indices_] = 0
non_core_mask(db_labels, core) == [i \in DOMAIN db_labels |-> i \notin core]

\* a boolean array taken as positions: False is position 0, True position 1
AsPositions(mask) == [i \in DOMAIN mask |-> IF mask[i] THEN 1 ELSE 0]

\* np.put(a, ind, v): ind holds 0-based positions; a position past the end
\* raises IndexError (mode='raise')
np_put(a, ind, v) ==
    IF \E i \in DOMAIN ind : ind[i] >= Len(a)
    THEN [err |-> "IndexError", a |-> a]
    ELSE [err |-> "ok",
          a |-> [j \in DOMAIN a |->
                    IF \E i \in DOMAIN ind : ind[i] = j - 1 THEN v ELSE a[j]]]

\* if core_only: ... np.put(db_labels, non_core_mask, -1)
core_only_labels(db_labels, core, core_only) ==
    IF core_only
    THEN np_put(db_labels, AsPositions(non_core_mask(db_labels, core)), Noise)
    ELSE [err |-> "ok", a |-> db_labels]

\* what DBSCAN.fit leaves in labels_ and core_sample_indices_ (positions
\* 1-based here): clusters numbered from 0, every cluster with a core
\* sample, no core sample labelled noise
DBSCANFits ==
    {m \in [db_labels : UNION {[1..n -> ClusterLabels] : n \in 1..MaxCoreRows},
            core : SUBSET (1..MaxCoreRows)] :
        /\ m.core \subseteq {i \in DOMAIN m.db_labels : m.db_labels[i] # Noise}
        /\ \A i \in DOMAIN m.db_labels :
              m.db_labels[i] # Noise =>
                  /\ \E j \in m.core : m.db_labels[j] = m.db_labels[i]
                  /\ \A l \in 0..m.db_labels[i] :
                        \E j \in DOMAIN m.db_labels : m.db_labels[j] = l}

InitCoreOnly ==
    /\ gate = "DensityClustering"
    /\ data = EmptyTable
    /\ child_populations = <<>>
    /\ cfg = Cfg(0, 0, 0, FALSE, None, "y", 0)
    /\ sample = NoSample
    /\ fmo_x = EmptyTable
    /\ fmo_y = EmptyTable
    /\ warnings = <<>>
    /\ labels = NoLabels
    /\ lastOp = NoOp
    /\ result = "none"
    /\ thr = NoThr
    /\ recon = <<>>
    /\ pred = NoPred
    /\ filegroup = NoFileGroup
    /\ \E m \in DBSCANFits : \E core_only \in BOOLEAN :
          fn = [name |-> "none", db_labels |-> m.db_labels, core |-> m.core,
                core_only |-> core_only, out |-> <<>>]
    /\ before = [pops |-> child_populations, warnings |-> warnings]

\* fn after the labelling of the fitted model, up to the use of db_labels
Labelled(method, r) ==
    [fn EXCEPT !.name = method, !.out = IF r.err = "ok" THEN r.a ELSE <<>>]

\* _dbscan_chunks: sample['labels'] = db_labels
dbscan_chunks_labels ==
    /\ fn.name = "none"
    /\ LET r == core_only_labels(fn.db_labels, fn.core, fn.core_only)
       IN  /\ fn' = Labelled("_dbscan_chunks", r)
           /\ result' = r.err
    /\ UNCHANGED <<gate, data, labels, child_populations, warnings, cfg, sample,
                   fmo_x, fmo_y, lastOp, thr, recon, pred, filegroup, before>>

\* _dbscan_knn: KNeighborsClassifier(...).fit(sample[[x, y]], db_labels)
dbscan_knn_labels ==
    /\ fn.name = "none"
    /\ LET r == core_only_labels(fn.db_labels, fn.core, fn.core_only)
       IN  /\ fn' = Labelled("_dbscan_knn", r)
           /\ result' = r.err
    /\ UNCHANGED <<gate, data, labels, child_populations, warnings, cfg, sample,
                   fmo_x, fmo_y, lastOp, thr, recon, pred, filegroup, before>>

NextCoreOnly == dbscan_chunks_labels \/ dbscan_knn_labels
SpecCoreOnly == InitCoreOnly /\ [][NextCoreOnly]_vars

----------------------------------------------------------------------------
\* The two worker-pool fan-outs of chunked clustering, worker by worker

PoolChunkLists == {chunks \in ChunkLists : Len(chunks) >= 2}
PoolCollections == {pops \in MetaCollections : Len(pops) = 2}

\* out: the value each worker returned, by the position of its chunk;
\* order: the positions in the order the workers finished;
\* orders: the finishing orders of the fan-outs already joined
NoPool ==
    [name |-> "none", chunks |-> <<>>, k |-> 0, cc |-> <<>>, meta |-> <<>>,
     merged |-> <<>>, out |-> <<>>, order |-> <<>>, orders |-> <<>>]

Finished == {fn.order[j] : j \in DOMAIN fn.order}
AllFinished == Finished = DOMAIN fn.chunks

InitPool ==
    /\ gate = "DensityClustering"
    /\ data = EmptyTable
    /\ child_populations \in PoolCollections
    /\ cfg = Cfg(0, 0, 0, FALSE, None, "y", 0)
    /\ sample = NoSample
    /\ fmo_x = EmptyTable
    /\ fmo_y = EmptyTable
    /\ warnings = <<>>
    /\ labels = NoLabels
    /\ lastOp = NoOp
    /\ result = "none"
    /\ thr = NoThr
    /\ recon = <<>>
    /\ pred = NoPred
    /\ filegroup = NoFileGroup
    /\ \E chunks \in PoolChunkLists :
          fn = [NoPool EXCEPT !.chunks = chunks,
                              !.out = [c \in DOMAIN chunks |-> <<>>]]
    /\ before = [pops |-> child_populations, warnings |-> warnings]

\* one worker of pool.map(multi_centroid_calculation, clustered_chunks_wo_noise)
CentroidWorker ==
    /\ fn.name = "none"
    /\ \E c \in DOMAIN fn.chunks \ Finished :
          fn' = [fn EXCEPT !.out[c] = multi_centroid_calculation(wo_noise(fn.chunks[c])),
                           !.order = Append(@, c)]
    /\ UNCHANGED <<gate, data, labels, child_populations, warnings, cfg, sample, fmo_x,
                   fmo_y, lastOp, result, thr, recon, pred, filegroup, before>>

\* cluster_centroids = pd.concat(pool.map(...)) and the rest of _meta_clustering
CentroidsJoined ==
    /\ fn.name = "none" /\ AllFinished
    /\ LET cc == concat(pool_map(fn.out, fn.order))
       IN  \E r \in meta_fit(cc, meta_k(fn.chunks, Len(child_populations))) :
              /\ fn' = [fn EXCEPT !.name = "_meta_clustering", !.cc = cc, !.k = r.k,
                                  !.meta = r.meta,
                                  !.out = [c \in DOMAIN fn.chunks |-> <<>>],
                                  !.order = <<>>, !.orders = Append(@, fn.order)]
              /\ result' = r.err
    /\ UNCHANGED <<gate, data, labels, child_populations, warnings, cfg, sample, fmo_x,
                   fmo_y, lastOp, thr, recon, pred, filegroup, before>>

\* one worker of pool.map(f, clustered_data), f = partial(meta_assignment, ...)
AssignmentWorker ==
    /\ fn.name = "_meta_clustering" /\ result = "ok"
    /\ \E c \in DOMAIN fn.chunks \ Finished :
          fn' = [fn EXCEPT !.out[c] = meta_assignment(fn.chunks[c], fn.meta),
                           !.order = Append(@, c)]
    /\ UNCHANGED <<gate, data, labels, child_populations, warnings, cfg, sample, fmo_x,
                   fmo_y, lastOp, result, thr, recon, pred, filegroup, before>>

\* data = pd.concat(pool.map(f, clustered_data)): an error of a worker is
\* raised again by map
AssignmentsJoined ==
    /\ fn.name = "_meta_clustering" /\ result = "ok" /\ AllFinished
    /\ LET parts == pool_map(fn.out, fn.order)
           failed == \E c \in DOMAIN parts : parts[c].err # "ok"
       IN  /\ fn' = [fn EXCEPT !.name = "meta_assignment",
                               !.merged = IF failed THEN <<>>
                                          ELSE concat([c \in DOMAIN parts |-> parts[c].rows]),
                               !.orders = Append(@, fn.order)]
           /\ result' = IF failed THEN "AssertionError" ELSE "ok"
    /\ UNCHANGED <<gate, data, labels, child_populations, warnings, cfg, sample, fmo_x,
                   fmo_y, lastOp, thr, recon, pred, filegroup, before>>

NextPool == CentroidWorker \/ CentroidsJoined \/ AssignmentWorker \/ AssignmentsJoined
SpecPool == InitPool /\ [][NextPool]_vars

---------------------------------------------------------------------------
\* Properties.
Op == lastOp[1]
Called == lastOp # NoOp
Unchanged == child_populations = before.pops /\ warnings = before.warnings
PopByDef(d) == PopOf(child_populations, fetch_by_definition(child_populations, d))
OldByDef(d) == PopOf(before.pops, fetch_by_definition(before.pops, d))
Has(d) == fetch_by_definition(child_populations, d) # None
EstimatorErrors == {"AssertionError", "IndexError"}

C2_Partition1D ==
    (lastOp = <<"gate_1d", "overwrite">> /\ result = "returned" /\ ~empty_parent(data)) =>
        LET P == PopByDef("+").index
            N == PopByDef("-").index
        IN  /\ thr.x.kind = "num"
            /\ P = {i \in Ids(data) : data[i].x * Scale > thr.x.v}
            /\ N = {i \in Ids(data) : data[i].x * Scale < thr.x.v}
            /\ P \cap N = {}
            /\ \A i \in Ids(data) : data[i].x * Scale = thr.x.v => i \notin P \cup N

C2_Witness ==
    /\ lastOp = <<"gate_1d", "overwrite">> /\ result = "returned"
    /\ sample.some /\ sample.ids # Ids(data)
    /\ ~empty_parent(data)
    /\ \E i \in Ids(data) \ sample.ids : i \in PopByDef("-").index
    /\ \E i \in Ids(data) : data[i].x * Scale = thr.x.v
    /\ \E i \in OldByDef("-").index : i \notin PopByDef("-").index

QuadrantOf(d) ==
    {i \in Ids(data) :
        /\ IF d[1] = "+" THEN data[i].x * Scale > thr.x.v ELSE data[i].x * Scale < thr.x.v
        /\ IF d[2] = "+" THEN data[i].y * Scale > thr.y.v ELSE data[i].y * Scale < thr.y.v}

QuadSigns == {<<"-", "-">>, <<"-", "+">>, <<"+", "-">>, <<"+", "+">>}
DefOf(d) == CASE d = <<"-", "-">> -> "--" [] d = <<"-", "+">> -> "-+"
              [] d = <<"+", "-">> -> "+-" [] d = <<"+", "+">> -> "++"
Computed(d) == PopByDef(DefOf(d)).index \ OldByDef(DefOf(d)).index
OnThreshold == {i \in Ids(data) : data[i].x * Scale = thr.x.v \/ data[i].y * Scale = thr.y.v}

\* C3: the index sets gate_2d computes for '--', '-+', '+-', '++' (merged into
\* the populations) are pairwise disjoint, each row off both thresholds is in
\* exactly the quadrant of its signs, and the four sets with the rows lying on
\* a threshold are the full event set.
C3_Partition2D ==
    (Op = "gate_2d" /\ result = "returned" /\ ~empty_parent(data)) =>
        /\ thr.x.kind = "num" /\ thr.y.kind = "num"
        /\ \A d \in QuadSigns :
              PopByDef(DefOf(d)).index = OldByDef(DefOf(d)).index \cup QuadrantOf(d)
        /\ \A d \in QuadSigns, e \in QuadSigns :
              d # e => (PopByDef(DefOf(d)).index \ OldByDef(DefOf(d)).index)
                        \cap (PopByDef(DefOf(e)).index \ OldByDef(DefOf(e)).index) = {}
        /\ UNION {PopByDef(DefOf(d)).index : d \in QuadSigns} \cup OnThreshold
              \cup UNION {OldByDef(DefOf(d)).index : d \in QuadSigns} = Ids(data)
        /\ \A i \in Ids(data) \ OnThreshold :
              Cardinality({d \in QuadSigns : i \in QuadrantOf(d)
                              /\ i \in PopByDef(DefOf(d)).index}) = 1

C3_Witness ==
    /\ Op = "gate_2d" /\ result = "returned" /\ ~empty_parent(data)
    /\ OnThreshold # {}
    /\ Cardinality({d \in QuadSigns : PopByDef(DefOf(d)).index # {}}) >= 2
    /\ \A d \in QuadSigns : OldByDef(DefOf(d)).index = {}

Required(op) == IF op = "gate_1d" THEN OneD ELSE Quad

\* C4 (as specified): a threshold gate on a non-empty parent whose collection
\* lacks a required definition aborts with GateError, not with another error.
C4_MissingDefinitionRaisesGateError ==
    (/\ Op \in {"gate_1d", "gate_2d"}
     /\ ~empty_parent(data)
     /\ \E d \in Required(Op) : ~Has(d)
     /\ result \notin EstimatorErrors) => result = "GateError"

\* C5 (as specified): a threshold gate that fails because a required definition
\* is missing leaves every population's index and geom as it was.
C5_NoPartialResult ==
    (/\ Op \in {"gate_1d", "gate_2d"}
     /\ ~empty_parent(data)
     /\ \E d \in Required(Op) : ~Has(d)
     /\ result # "returned") => child_populations = before.pops

ClusterOps == {"dbscan", "hdbscan"}
Clustered == Op \in ClusterOps /\ result = "returned" /\ ~empty_parent(data)
Members(c) == {i \in 1..Len(before.pops) : pred.assignments[i] = c}
Mapped(c) == {i \in 1..Len(before.pops) : <<before.pops[i].name, c>> \in pred.final}
InSeq(n, q) == \E j \in 1..Len(q) : q[j] = n
NamedInWarning(i, c) ==
    \E j \in 1..Len(warnings) :
        /\ warnings[j].kind = "same_cluster" /\ warnings[j].cluster = c
        /\ InSeq(before.pops[i].name, warnings[j].pops)
        /\ warnings[j].priority # before.pops[i].name

\* C6 (as specified): when two or more populations are matched to one cluster,
\* the final mapping keeps only the one of greatest weight; every other one is
\* named in a warning, is absent from the final mapping and keeps the index it
\* had, wherever it stands in the collection.
C6_TieBreakKeepsOnlyGreatestWeight ==
    Clustered =>
        \A c \in ClusterLabels :
            Cardinality(Members(c)) >= 2 =>
                /\ Cardinality(Mapped(c)) = 1
                /\ \A i \in Mapped(c) : \A j \in Members(c) :
                      before.pops[i].weight >= before.pops[j].weight
                /\ \A j \in Members(c) \ Mapped(c) :
                      /\ NamedInWarning(j, c)
                      /\ child_populations[j] = before.pops[j]

\* C7 (as specified): each population of the final mapping gets the ids of the
\* events of its cluster, and the empty set when the cluster is noise; its
\* geom is 'poly' with the outline of the cluster, empty for noise.
C7_AssignmentIndexAndGeom ==
    Clustered =>
        \A i \in 1..Len(child_populations) : \A c \in ClusterLabels :
            <<child_populations[i].name, c>> \in pred.final =>
                /\ child_populations[i].index =
                      IF c # Noise THEN ClusterRows(data, labels.col, c) ELSE {}
                /\ child_populations[i].geom =
                      PolyGeom(IF c # Noise THEN generate_polygons(data, labels.col)[c] ELSE {})

\* C8 (as specified): after a clustering call on a non-empty parent that ends
\* without error, every population of the collection, a displaced one
\* included, has had its index and geom set by the call.
C8_EveryPopulationAssigned ==
    Clustered =>
        \A i \in 1..Len(child_populations) :
            /\ child_populations[i].geom.shape = "poly"
            /\ \E c \in ClusterLabels : <<child_populations[i].name, c>> \in pred.final

Abs(d) == IF d < 0 THEN -d ELSE d
Reconciled ==
    /\ fn.name = "reconcile" /\ fn.done
    /\ fn.whole.err = "ok" /\ fn.whole.method = LocalMinima
    /\ fn.fmo.err = "ok" /\ fn.fmo.threshold.kind = "num"
\* |z| * Scale * 10 for z = (control - whole) / 0.1, thresholds being scaled
ZTimes == 10 * Abs(fn.fmo.threshold.v - fn.whole.threshold.v)

\* C9 (as specified): with the full-panel method 'Local minima between pair of
\* highest peaks' and z = (control - whole) / 0.1, reconcile returns the whole
\* threshold and method and appends one warning when |z| is strictly greater
\* than the configured threshold; otherwise, |z| equal to it included, it
\* returns the mean of the two thresholds with the guided method and no warning.
C9_ReconcileStrict ==
    Reconciled =>
        IF ZTimes > cfg.z_score_t * Scale
        THEN /\ result = "ok"
             /\ thr.x = fn.whole.threshold /\ fn.method = fn.whole.method
             /\ warnings = Append(before.warnings, ZScoreWarning)
        ELSE /\ result = "ok"
             /\ thr.x.kind = "num" /\ 2 * thr.x.v = fn.whole.threshold.v + fn.fmo.threshold.v
             /\ fn.method = FMOGuided
             /\ warnings = before.warnings

GuidedOps == {"fmo_1d", "fmo_2d"}

\* C10: on a non-empty parent, __1d raises GateError whenever the control
\* sample it is given has no events, before any threshold is estimated; the
\* call ends with that error and leaves the collection and the warnings as
\* they were.
C10_EmptyControlRaisesGateError ==
    (Op \in GuidedOps /\ ~empty_parent(data)) =>
        /\ \A j \in 1..Len(recon) :
              recon[j].control_rows = 0 =>
                  /\ recon[j].err = "GateError"
                  /\ recon[j].estimates = 0
                  /\ ~recon[j].warned
                  /\ result = "GateError"
                  /\ Unchanged
        /\ (empty_parent(fmo_x) /\ (Op = "fmo_1d" \/ cfg.y # None)) =>
              /\ Len(recon) = 1 /\ recon[1].control_rows = 0

C10_Witness ==
    /\ Op = "fmo_2d" /\ ~empty_parent(data) /\ empty_parent(fmo_x) /\ cfg.y # None
    /\ Len(before.pops) > 0
    /\ result = "GateError" /\ Len(recon) = 1

ThresholdOps == {"gate_1d", "gate_2d"}
\* the density of the gated column has no local maximum: the column of the
\* working table holds one value only, so the curve is flat
NoLocalMaximum == Cardinality(ColVals(Working(data, sample), "x")) < 2

\* C11 (as specified): when the density curve of the gated column has no local
\* maximum, the 1D and 2D threshold gates abort with GateError, with or without
\* a peak-height threshold, and leave the collection as it was.
C11_NoPeaksRaisesGateError ==
    (/\ Op \in ThresholdOps
     /\ ~empty_parent(data)
     /\ NoLocalMaximum) => (result = "GateError" /\ child_populations = before.pops)

Predicted == Op = "_predict_pop_clusters"
AllNoise == labels.present /\ UniqueLabels(data, labels.col) = {Noise}

\* C12: matching raises GateError when the event table has no label column and
\* when every event is labelled noise, before any population is matched, any
\* warning appended or any index or geom updated.
C12_MatchingRaisesGateError ==
    (Predicted /\ (~labels.present \/ AllNoise)) =>
        /\ result = "GateError"
        /\ pred = NoPred
        /\ Unchanged

C12_Witness ==
    /\ Predicted /\ AllNoise /\ Len(child_populations) >= 2
    /\ result = "GateError"

XControlOnly == fn.name = "FMOGate.__init__" /\ fn.done /\ ~fn.fmo_y_given

\* C13 (as specified): a guided gate given a control sample for x only is
\* constructed without error, and its 1D gate on a non-empty parent with a
\* non-empty control completes and assigns '+' and '-' as the plain 1D gate
\* does for the reconciled threshold, with geom 'threshold_1d' and the
\* reconciled method.
C13_XOnlyGuidedGate ==
    /\ XControlOnly => (gate = "FMOGate" /\ result # "AttributeError")
    /\ (/\ fn.name = "FMOGate.__init__" /\ fn.done
        /\ Op = "fmo_1d" /\ ~empty_parent(data) /\ ~empty_parent(fmo_x)
        /\ Has("+") /\ Has("-")) =>
          /\ result = "returned"
          /\ thr.x.kind = "num"
          /\ PopByDef("+").index \ OldByDef("+").index
                = {i \in Ids(data) : data[i].x * Scale > thr.x.v} \ OldByDef("+").index
          /\ PopByDef("-").index \ OldByDef("-").index
                = {i \in Ids(data) : data[i].x * Scale < thr.x.v} \ OldByDef("-").index
          /\ PopByDef("+").geom.shape = "threshold_1d"
          /\ PopByDef("-").geom = PopByDef("+").geom

PostChecked == lastOp = <<"dbscan", "chunks">> /\ fn.name = "_post_cluster_checks"
NotATable == {"TypeError", "AttributeError"}

\* C14 (as specified): in chunked dbscan, when the merged labels hold exactly
\* one distinct label or their number differs from the number of expected
\* populations, the check appends a warning, hands the labelled event table to
\* the following steps and no error comes of it.
C14_PostClusterCheckIsSoft ==
    (PostChecked /\ (fn.n_labels = 1 \/ fn.n_labels # Len(before.pops))) =>
        /\ fn.warned
        /\ fn.handed = "data"
        /\ result \notin NotATable

\* the names of a list that are not in another, in order
Without(names, l) == SelectSeq(names, LAMBDA n : ~InList(n, l))
Expected(names) ==
    IF fn.arg = StrArg(AllStr) THEN <<>> ELSE Without(names, fn.arg.v)

\* C15 (as specified): delete_populations('all') leaves no population and
\* delete_gates('all') no gate, whatever the names; with a list of names
\* exactly the named ones are removed and every other one is kept.
C15_DeleteAllOrNamed ==
    /\ fn.name = "delete_populations" =>
          /\ filegroup.populations = Expected(fn.was.populations)
          /\ filegroup.gates = fn.was.gates
    /\ fn.name = "delete_gates" =>
          /\ filegroup.gates = Expected(fn.was.gates)
          /\ filegroup.populations = fn.was.populations

SinglePeakMethods == {Quantile, StdDev}
ControlTrusted ==
    /\ result = "ok"
    /\ thr.x = fn.fmo.threshold /\ fn.method = fn.fmo.method
    /\ warnings = before.warnings

\* C16 (as specified): reconcile on a non-empty control, the full-panel
\* estimate having method 'Quantile' or 'Standard deviation', returns exactly
\* the control threshold and the control method, whatever the distance between
\* the two thresholds, and appends no warning.
C16_ControlTrustedOnSinglePeak ==
    (/\ fn.name = "__1d" /\ fn.done /\ fn.control_rows > 0
     /\ fn.whole.err = "ok" /\ fn.whole.method \in SinglePeakMethods
     /\ fn.fmo.err = "ok") => ControlTrusted

\* lines 82-83 on their own, the two estimates in hand: the control is trusted
Lines82To83TrustControl ==
    (/\ fn.name = "reconcile" /\ fn.done
     /\ fn.whole.err = "ok" /\ fn.whole.method \in SinglePeakMethods
     /\ fn.fmo.err = "ok") => ControlTrusted

Estimated == fn.name = "__calc_threshold"
Surviving == find_peaks_at(fn.probs, cfg)
OnePeakSurvives == Estimated /\ Surviving.err = "ok" /\ Len(Surviving.peaks) = 1

\* the single-peak estimate of a feature as specified, scaled as Fine does
SinglePeakEstimates(tab, col, c) ==
    {Fine(e) : e \in
        IF c.q # 0 THEN {Est("ok", Num(quantile(tab, col, c.q) * Scale), Quantile)}
        ELSE IF c.std # 0 THEN {Est("ok", t, StdDev) : t \in std_threshold(tab, col)}
        ELSE {Est("ok", Num(quantile(tab, col, 95) * Scale), Quantile)}}

\* C17 (as specified): with exactly one surviving peak the estimate of a
\* feature is the configured quantile of the feature with 'Quantile'; without
\* a quantile but with a standard-deviation multiplier it is mean + multiplier
\* x standard deviation of the feature with 'Standard deviation'; with neither
\* it is the 95th percentile with 'Quantile'; never the local-minimum method.
C17_SinglePeakEstimate ==
    OnePeakSurvives =>
        /\ fn.est \in SinglePeakEstimates(data, fn.feature, cfg)
        /\ fn.est.method # LocalMinima

Range(a) == {a[i] : i \in DOMAIN a}
PeakChecked == fn.name = "check_peak" /\ Len(fn.input) > 0
Tallest == SetMax({fn.probs[i] : i \in Range(fn.input)})
HighEnough == {i \in Range(fn.input) : 100 * fn.probs[i] >= fn.t * Tallest}

\* C18 (as specified): check_peak with threshold t on a non-empty peak array
\* returns exactly the input peak indices whose density is at least t x the
\* density of the tallest peak, the tallest included, each once and in
\* ascending order, also when grid points or peaks share a density.
C18_CheckPeakKeepsHighPeaks ==
    PeakChecked => fn.err = "ok" /\ fn.peaks = Ascending(HighEnough)

\* the same with every density of the curve different from every peak's
NoSharedDensity ==
    \A i \in Range(fn.input), k \in DOMAIN fn.probs : k # i => fn.probs[k] # fn.probs[i]
CheckPeakOnDistinctDensities ==
    (PeakChecked /\ NoSharedDensity) => fn.err = "ok" /\ fn.peaks = Ascending(HighEnough)

MinimumFound == fn.name = "find_local_minima"
\* the two tallest of the peaks handed in: a pair of peak indices whose
\* densities are the two greatest of the peak densities
TallestPairs ==
    {pr \in Range(fn.input) \X Range(fn.input) :
        /\ pr[1] < pr[2]
        /\ \A k \in Range(fn.input) \ {pr[1], pr[2]} :
              fn.probs[k] <= fn.probs[pr[1]] /\ fn.probs[k] <= fn.probs[pr[2]]}
StrictlyBetween(pr) == (pr[1] + 1)..(pr[2] - 1)
EqualTops(pr) == fn.probs[pr[1]] = fn.probs[pr[2]]

\* C19 (as specified): find_local_minima with at least two peaks returns the
\* grid value at an index strictly between the two tallest peaks, the density
\* there being the least density strictly between them; when the two tallest
\* peaks have equal density, the two grid indices where the density equals
\* that top value are the pair used.
C19_MinimumBetweenTallestPeaks ==
    MinimumFound =>
        /\ fn.err = "ok"
        /\ \E pr \in TallestPairs :
              /\ fn.idx \in StrictlyBetween(pr)
              /\ \A k \in StrictlyBetween(pr) : fn.probs[fn.idx] <= fn.probs[k]
              /\ EqualTops(pr) =>
                    {i \in DOMAIN fn.probs : fn.probs[i] = fn.probs[pr[1]]} = {pr[1], pr[2]}

Found == signal_find_peaks(fn.probs)
SeveralPeaksMerged ==
    /\ Estimated /\ cfg.ignore_double_pos /\ cfg.peak_threshold = 0
    /\ Len(Found) > 1
\* the peaks up to and including the (first) peak of greatest density
UpToTallest ==
    LET top == SetMax({fn.probs[i] : i \in Range(Found)})
        first == SetMin({i \in Range(Found) : fn.probs[i] = top})
    IN  SelectSeq(Found, LAMBDA i : i <= first)

\* C20 (as specified): with more than one peak and ignore-double-positive
\* requested the peaks kept are those up to and including the tallest, in
\* index order, and the estimator returns a threshold with method 'Local
\* minima between pair of highest peaks' computed from the kept peaks,
\* wherever the tallest peak stands, leftmost included.
C20_DoublePositiveMerged ==
    SeveralPeaksMerged =>
        /\ merge_double_pos(fn.probs, Found) = UpToTallest
        /\ fn.est.err = "ok"
        /\ fn.est.method = LocalMinima
        /\ fn.est.threshold.kind = "num"

MetaClustered == fn.name = "_meta_clustering"
\* the distinct non-noise labels of a chunk
NonNoiseLabels(chunk) == {chunk.rows[i].labels : i \in DOMAIN chunk.rows} \ {Noise}
CountIn(c) == Cardinality(NonNoiseLabels(fn.chunks[c]))
\* the two middle values of the counts: at least half of the chunks have a
\* count not above lo (not below hi), and lo is the greatest (hi the least) such
AtMost(v) == Cardinality({c \in DOMAIN fn.chunks : CountIn(c) <= v})
AtLeast(v) == Cardinality({c \in DOMAIN fn.chunks : CountIn(c) >= v})
Counts == {CountIn(c) : c \in DOMAIN fn.chunks}
LowerMedian == SetMin({v \in Counts : 2 * AtMost(v) >= Len(fn.chunks)})
UpperMedian == SetMax({v \in Counts : 2 * AtLeast(v) >= Len(fn.chunks)})
\* twice the median m of the counts
TwiceMedian == LowerMedian + UpperMedian
Expected_n == Len(child_populations)

\* C21: with m the median over the chunks of the number of distinct non-noise
\* labels and n the number of expected populations, k is m truncated to an
\* integer when m < n and n when m >= n; m = n gives n.
C21_MetaClusterCount ==
    MetaClustered =>
        /\ TwiceMedian < 2 * Expected_n => (2 * fn.k <= TwiceMedian /\ TwiceMedian < 2 * fn.k + 2)
        /\ TwiceMedian >= 2 * Expected_n => fn.k = Expected_n

C21_Witness ==
    /\ MetaClustered /\ Len(fn.chunks) = 2
    /\ TwiceMedian = 3 /\ Expected_n = 2 /\ fn.k = 1

MetaAssigned == fn.name = "meta_assignment"
\* the rows of the mapping for a chunk number and a local label
MappingRows(idx, l) ==
    {j \in DOMAIN fn.meta : fn.meta[j].chunk_idx = idx /\ fn.meta[j].cluster = l}
\* where the events of chunk c stand in the merged table
MergedAt(c, j) == fn.merged[RowsBefore([d \in DOMAIN fn.chunks |-> fn.chunks[d].rows], c) + j]

\* C22: the mapping holds exactly one row per (chunk id, non-noise local
\* label) of a chunk; meta_assignment replaces each non-noise label by the
\* meta-cluster of that row of the chunk's own chunk id, rewrites -1 to -1,
\* and leaves the events and their identifiers as they were.
C22_MetaAssignment ==
    MetaAssigned =>
        /\ result = "ok"
        /\ \A c \in DOMAIN fn.chunks :
              LET chunk == fn.chunks[c]
              IN  /\ \A l \in NonNoiseLabels(chunk) :
                        Cardinality(MappingRows(chunk.chunk_idx, l)) = 1
                  /\ \A j \in DOMAIN chunk.rows :
                        LET old == chunk.rows[j]
                            new == MergedAt(c, j)
                        IN  /\ new.id = old.id /\ new.x = old.x /\ new.y = old.y
                            /\ old.labels = Noise => new.labels = Noise
                            /\ old.labels # Noise =>
                                  \E r \in MappingRows(chunk.chunk_idx, old.labels) :
                                      new.labels = fn.meta[r].meta_cluster
        /\ Len(fn.merged) = Len(concat([d \in DOMAIN fn.chunks |-> fn.chunks[d].rows]))

\* two chunks share a local label that goes to different meta-clusters, and
\* one of them holds noise
C22_Witness ==
    /\ MetaAssigned /\ result = "ok" /\ Len(fn.chunks) > 2
    /\ \E i \in DOMAIN fn.chunks[1].rows, j \in DOMAIN fn.chunks[2].rows :
          /\ fn.chunks[1].rows[i].labels = 0 /\ fn.chunks[2].rows[j].labels = 0
          /\ MergedAt(1, i).labels # MergedAt(2, j).labels
    /\ \E j \in DOMAIN fn.merged : fn.merged[j].labels = Noise

PopMatched == fn.name = "_match_pop_to_cluster" /\ result = "ok"
TargetOf == child_populations[1].target
InsideSome ==
    \E c \in UniqueLabels(data, labels.col) \ {Noise} :
        Contains({Point(data, i) : i \in ClusterRows(data, labels.col, c)}, TargetOf)
Samples == Neighbours(data, NeighbourK(Len(data)))
AllNoiseIn(S) == S # {} /\ \A i \in S : labels.col[i] = Noise
NoiseWarning == Warn("noise", <<child_populations[1].name>>, Noise, "")

MiddleSum(col, c) ==
    LET S == ClusterRows(data, labels.col, c)
        vals == {ColOf(data, col, i) : i \in S}
        atMost(v) == Cardinality({i \in S : ColOf(data, col, i) <= v})
        atLeast(v) == Cardinality({i \in S : ColOf(data, col, i) >= v})
    IN  SetMin({v \in vals : 2 * atMost(v) >= Cardinality(S)})
        + SetMax({v \in vals : 2 * atLeast(v) >= Cardinality(S)})
\* the squared Euclidean distance, times 4, from the target to the centroid
TargetDist(c) ==
    (2 * TargetOf[1] - MiddleSum("x", c)) * (2 * TargetOf[1] - MiddleSum("x", c))
    + (2 * TargetOf[2] - MiddleSum("y", c)) * (2 * TargetOf[2] - MiddleSum("y", c))
NonNoiseClusters == UniqueLabels(data, labels.col) \ {Noise}

\* C24: a population not matched to noise is matched to a non-noise cluster
\* label whose centroid (per-dimension median of the cluster's events) is at
\* the smallest Euclidean distance from the population's target.
C24_NearestCentroid ==
    (PopMatched /\ fn.cluster # Noise) =>
        /\ fn.cluster \in NonNoiseClusters
        /\ \A c \in NonNoiseClusters : TargetDist(fn.cluster) <= TargetDist(c)

\* two clusters at different distances, noise among the events
C24_Witness ==
    /\ PopMatched /\ fn.cluster # Noise
    /\ Noise \in UniqueLabels(data, labels.col)
    /\ \E c \in NonNoiseClusters : TargetDist(fn.cluster) < TargetDist(c)
    /\ Cardinality(ClusterRows(data, labels.col, fn.cluster)) > 1

\* the events of chunk number idx carrying label l
ChunkOf(idx) == fn.chunks[CHOOSE c \in DOMAIN fn.chunks : fn.chunks[c].chunk_idx = idx]
Carrying(idx, l) == {j \in DOMAIN ChunkOf(idx).rows : ChunkOf(idx).rows[j].labels = l}
\* twice the median of a column over those events, by counting
ChunkMiddleSum(idx, l, col) ==
    LET rows == ChunkOf(idx).rows
        S == Carrying(idx, l)
        val(j) == IF col = "x" THEN rows[j].x ELSE rows[j].y
        atMost(v) == Cardinality({j \in S : val(j) <= v})
        atLeast(v) == Cardinality({j \in S : val(j) >= v})
    IN  SetMin({v \in {val(j) : j \in S} : 2 * atMost(v) >= Cardinality(S)})
        + SetMax({v \in {val(j) : j \in S} : 2 * atLeast(v) >= Cardinality(S)})

\* C25: no event labelled -1 contributes to a centroid: the centroid table of
\* meta-clustering has no row for -1 and each row is the centroid of the
\* events of its chunk carrying its label; in matching only the centroids of
\* the non-noise labels are compared.
C25_NoiseOutOfCentroids ==
    /\ (fn.name \in {"_meta_clustering", "meta_assignment"} /\ fn.meta # <<>>) =>
          \A j \in DOMAIN fn.meta :
              LET r == fn.meta[j]
              IN  /\ r.cluster # Noise
                  /\ Carrying(r.chunk_idx, r.cluster) # {}
                  /\ r.x = ChunkMiddleSum(r.chunk_idx, r.cluster, "x")
                  /\ r.y = ChunkMiddleSum(r.chunk_idx, r.cluster, "y")
    /\ (PopMatched /\ ~(\E S \in Samples : AllNoiseIn(S) /\ ~InsideSome)) =>
          /\ fn.cluster \in NonNoiseClusters
          /\ \A c \in NonNoiseClusters : TargetDist(fn.cluster) <= TargetDist(c)

\* a chunk with a noise event away from the events of its cluster
C25_Witness ==
    /\ fn.name = "_meta_clustering" /\ result = "ok"
    /\ \E c \in DOMAIN fn.chunks : \E i, j \in DOMAIN fn.chunks[c].rows :
          /\ fn.chunks[c].rows[i].labels = Noise
          /\ fn.chunks[c].rows[j].labels # Noise
          /\ fn.chunks[c].rows[i].x # fn.chunks[c].rows[j].x

\* C26 (as specified): with core_only every non-core sample is labelled -1
\* and every core sample keeps its DBSCAN label, on the chunked and on the
\* KNN path; without core_only the labels are those of DBSCAN.
C26_CoreOnlyRelabelsNonCore ==
    fn.name \in {"_dbscan_chunks", "_dbscan_knn"} =>
        /\ result = "ok"
        /\ DOMAIN fn.out = DOMAIN fn.db_labels
        /\ \A i \in DOMAIN fn.db_labels :
              fn.out[i] = IF fn.core_only /\ i \notin fn.core
                          THEN Noise ELSE fn.db_labels[i]

\* the table is in the order of the events of the chunks, first chunk first
InChunkOrder(table, key(_)) ==
    \A i, j \in DOMAIN table : i < j => key(table[i]) <= key(table[j])

\* C27: whatever the order in which the workers of the two fan-outs finish,
\* the centroid table and the merged table are the ones the chunks give when
\* taken one after the other in their original order, and no step of a
\* worker changes the chunks or the shared mapping.
C27_PoolKeepsChunkOrder ==
    /\ [](/\ fn.name \in {"_meta_clustering", "meta_assignment"} =>
                /\ fn.cc = cluster_centroids(fn.chunks)
                /\ InChunkOrder(fn.cc, LAMBDA r : r.chunk_idx)
          /\ fn.name = "meta_assignment" =>
                /\ Assigned(result, fn.merged) = merge_chunks(fn.chunks, fn.meta)
                /\ result = "ok" => \A j \in DOMAIN fn.merged : fn.merged[j].id = j)
    /\ [][/\ fn'.chunks = fn.chunks
          /\ fn.name = "_meta_clustering" => fn'.meta = fn.meta]_vars

\* both fan-outs finished last chunk first, on chunks that differ
C27_Witness ==
    /\ fn.name = "meta_assignment" /\ result = "ok"
    /\ Len(fn.chunks) = MaxChunks
    /\ \A o \in DOMAIN fn.orders : fn.orders[o][1] = MaxChunks
    /\ \E c, d \in DOMAIN fn.chunks :
          [j \in DOMAIN fn.chunks[c].rows |-> fn.chunks[c].rows[j].labels]
              # [j \in DOMAIN fn.chunks[d].rows |-> fn.chunks[d].rows[j].labels]

\* the GateError of lines 143-144 and 201-202 ('Calculated threshold is Null')
NullThresholdError ==
    /\ Op \in {"gate_1d", "gate_2d"} /\ ~empty_parent(data)
    /\ ~(Op = "gate_2d" /\ cfg.y = None)
    /\ result = "GateError" /\ thr = NoThr
GatedColumns == IF Op = "gate_1d" THEN {"x"} ELSE {"x", "y"}
EstimatesOf(f) == {e \in calc_threshold(Working(data, sample), f, cfg) : e.err = "ok"}

\* C28 (as specified): gate_1d and gate_2d raise the null-threshold GateError
\* only when the estimator gave no threshold for a gated column; a computed
\* threshold of exactly 0 is accepted.
C28_NullErrorOnlyWithoutThreshold ==
    NullThresholdError =>
        \E f \in GatedColumns : \E e \in EstimatesOf(f) : e.threshold = NoneT

\* C29 (as specified): reconcile on two estimates that were made ends by
\* returning a threshold that is not null, or by raising GateError; this
\* includes a full-panel or control estimate that found no peak (no
\* threshold, method '') and a method that is none of the recognised ones.
C29_ReconcileNeverReturnsNull ==
    (fn.name = "reconcile" /\ fn.done /\ fn.whole.err = "ok" /\ fn.fmo.err = "ok") =>
        \/ result = "ok" /\ thr.x # NoneT
        \/ result = "GateError"

\* a chunk holds an event of a cluster
SomeCluster ==
    \E c \in DOMAIN fn.chunks : \E j \in DOMAIN fn.chunks[c].rows :
        fn.chunks[c].rows[j].labels # Noise
\* the rows of the centroid table: the (chunk, cluster) pairs
CentroidRows ==
    {<<c, l>> \in (DOMAIN fn.chunks) \X (ClusterLabels \ {Noise}) :
        \E j \in DOMAIN fn.chunks[c].rows : fn.chunks[c].rows[j].labels = l}

\* C30 (as specified): in meta-clustering, when some chunk holds a non-noise
\* cluster and at least one population is expected, the number of
\* meta-clusters k is at least 1 and at most the number of rows of the
\* centroid table.
C30_MetaClusterCountInRange ==
    (MetaClustered /\ SomeCluster /\ Len(child_populations) >= 1) =>
        /\ 1 <= fn.k
        /\ fn.k <= Cardinality(CentroidRows)

====
